---- MODULE Spec2Model ----
(***************************************************************************)
(* A model of the CelcomDigi RAG repository: the document processor        *)
(* (clean_text, extract_metadata, chunk_documents, save_chunks_to_file),    *)
(* the embedder's vector store (creation and loading), the retriever, the *)
(* Recall@k evaluation with its command line, the chat front end and the   *)
(* command-line assistant.                                                 *)
(*                                                                         *)
(* Text is a sequence of characters; a character is a one-character string *)
(* ("a", " ", "\n"), and a character that a TLA+ string cannot hold is     *)
(* written by its code point ("U+FF0D" is FULLWIDTH HYPHEN-MINUS, "U+000B" *)
(* the vertical tab).  Offsets are Python's: offset p is the character     *)
(* t[p+1].                                                                 *)
(***************************************************************************)
EXTENDS Integers, Sequences, FiniteSets, TLC

VARIABLES
    \* document processing (DocumentProcessor.process_documents)
    pdf_files,        \* the PDFs given to load_documents: [source, text], text as OCR reads it
    documents,        \* what load_documents returned
    all_chunks,       \* what chunk_documents returned, with the loop's locals of each chunk
    document_chunks_txt,  \* the lines of the file save_chunks_to_file wrote
    pcProcess,        \* "idle", "load", "chunk", "save", "done"
    \* text normalisation on its own (DocumentProcessor.clean_text)
    raw_text,         \* the text given to clean_text
    cleaned,          \* the results of applying clean_text again and again
    \* metadata extraction on its own (DocumentProcessor.extract_metadata)
    meta_document,    \* the Document given to extract_metadata
    meta_result       \* the dict it returned, << >> before the call

VARIABLES
    \* the vector store on disk and the evaluation run (evaluate_recall_at_k)
    chroma_db,            \* the persist directory: [exists, chunks]
    existed_at_start,     \* history: whether the directory existed before the run
    vectorstore,          \* the Chroma handle of the run: [loaded, chunks]
    TEST_QUESTIONS,       \* the test cases
    argv,                 \* sys.argv of the command line, << >> without one
    invalid_k_report,     \* the lines the __main__ block printed
    k,                    \* the k the run was started with
    index_fault,          \* the query (1st, 2nd, ...) on which the index is down, 0 for none
    case_index,           \* the loop's position in TEST_QUESTIONS, from 1
    correct_retrievals,
    retrieval_times,
    retrieved_log,        \* history: what retrieve returned for each case so far
    index_log,            \* history: what the index answered to each query
    warnings_seen,        \* history: the warnings that reached the caller of retrieve
    queries_issued,       \* history: the number of queries sent to the index
    report,               \* the returned dict, << >> before the run returns
    error,                \* the exception that ended the run, "none" if none did
    pcEval                \* "idle", "main", "start", "load", "loop", "done", "failed"

VARIABLES
    \* the chat front end (app.py)
    rag_system,           \* what st.cache_resource holds of load_rag_system:
                          \* "none", "loaded" or "failed"
    messages,             \* st.session_state.messages, << >> while the key is not set
    script_runs,          \* the number of script runs so far
    pcChat,               \* where the running script is: "idle" between runs,
                          \* "retrieve", "generate", "append" in the chat handler
    run_prompt,           \* prompt of the running script, "none" between runs
    run_retrieved_docs,   \* retrieved_docs of the running script
    run_full_response     \* full_response of the running script

VARIABLES
    \* the command-line assistant (main.py)
    pcMain                \* "idle", "start", "rebuild", "process", "ready", "done", "failed"

procVars == <<pdf_files, documents, all_chunks, document_chunks_txt, pcProcess>>
cleanVars == <<raw_text, cleaned>>
metaVars == <<meta_document, meta_result>>
evalVars == <<chroma_db, existed_at_start, vectorstore, TEST_QUESTIONS, argv,
              invalid_k_report, k, index_fault, case_index, correct_retrievals,
              retrieval_times, retrieved_log, index_log, warnings_seen, queries_issued,
              report, error, pcEval>>
chatVars == <<rag_system, messages, script_runs, pcChat, run_prompt,
              run_retrieved_docs, run_full_response>>
mainVars == <<pcMain>>
vars == <<procVars, cleanVars, metaVars, evalVars, chatVars, mainVars>>

---------------------------------------------------------------------------
(* Characters and the classes the regular expressions use.                 *)

Digits == {"0", "1", "2", "3", "4", "5", "6", "7", "8", "9"}

Lower == {"a", "b", "c", "d", "e", "f", "g", "h", "i", "j", "k", "l", "m",
          "n", "o", "p", "q", "r", "s", "t", "u", "v", "w", "x", "y", "z"}

Upper == {"A", "B", "C", "D", "E", "F", "G", "H", "I", "J", "K", "L", "M",
          "N", "O", "P", "Q", "R", "S", "T", "U", "V", "W", "X", "Y", "Z"}

\* [A-Za-z0-9]
AsciiAlnum == Lower \cup Upper \cup Digits

\* \w on the characters of the model
WordChars == AsciiAlnum \cup {"_"}

\* \s of a str pattern, and the characters str.strip() removes: the
\* characters for which str.isspace() holds
Spaces ==
    {" ", "\n", "\t", "\r", "\f", "U+000B", "U+001C", "U+001D", "U+001E", "U+001F",
     "U+0085", "U+00A0", "U+1680", "U+2000", "U+2001", "U+2002", "U+2003",
     "U+2004", "U+2005", "U+2006", "U+2007", "U+2008", "U+2009", "U+200A",
     "U+2028", "U+2029", "U+202F", "U+205F", "U+3000"}

\* the whitespace int() drops around a literal: the separators U+001C to
\* U+001F are not part of it
IntSpaces == Spaces \ {"U+001C", "U+001D", "U+001E", "U+001F"}

\* [\.,]
Separators == {".", ","}

\* [?:\.]
Terminators == {"?", ":", "."}

\* the character at offset p, "" past the end of the text
At(t, p) == IF p >= 0 /\ p < Len(t) THEN t[p + 1] ELSE ""

\* text[a:b]
Slice(t, a, b) ==
    LET lo == IF a < 0 THEN 0 ELSE a
        hi == IF b > Len(t) THEN Len(t) ELSE b
    IN  IF lo >= hi THEN << >> ELSE SubSeq(t, lo + 1, hi)

\* the end of the run of characters of class cls that starts at offset p
RunEnd(t, p, cls) ==
    CHOOSE q \in p..Len(t) :
        /\ \A j \in p..(q - 1) : At(t, j) \in cls
        /\ At(t, q) \notin cls

\* t without the characters of class cls that lead and trail it
StripOf(t, cls) ==
    IF \A j \in 0..(Len(t) - 1) : At(t, j) \in cls THEN << >>
    ELSE LET a == RunEnd(t, 0, cls)
             b == CHOOSE q \in 1..Len(t) :
                      /\ At(t, q - 1) \notin cls
                      /\ \A j \in q..(Len(t) - 1) : At(t, j) \in cls
         IN  Slice(t, a, b)

\* str.strip()
Strip(t) == StripOf(t, Spaces)

\* int() of a run of decimal digits
DigitVal(c) ==
    CASE c = "0" -> 0 [] c = "1" -> 1 [] c = "2" -> 2 [] c = "3" -> 3
      [] c = "4" -> 4 [] c = "5" -> 5 [] c = "6" -> 6 [] c = "7" -> 7
      [] c = "8" -> 8 [] c = "9" -> 9

RECURSIVE ParseInt(_)
ParseInt(ds) ==
    IF ds = << >> THEN 0
    ELSE 10 * ParseInt(SubSeq(ds, 1, Len(ds) - 1)) + DigitVal(ds[Len(ds)])

---------------------------------------------------------------------------
(* DocumentProcessor.clean_text                                            *)

\* re.sub(r'\s+', ' ', text): every run of whitespace becomes one space
RECURSIVE CollapseFrom(_, _)
CollapseFrom(t, p) ==
    IF p >= Len(t) THEN << >>
    ELSE IF At(t, p) \in Spaces
         THEN <<" ">> \o CollapseFrom(t, RunEnd(t, p, Spaces))
         ELSE <<At(t, p)>> \o CollapseFrom(t, p + 1)

CollapseWhitespace(t) == Strip(CollapseFrom(t, 0))

\* re.sub(r'(\w)-\s+(\w)', r'\1\2', text): matches are found left to right
\* and do not overlap, the scan resumes after the second word character
HyphenMatchEnd(t, p) ==
    IF /\ At(t, p) \in WordChars
       /\ At(t, p + 1) = "-"
       /\ At(t, p + 2) \in Spaces
       /\ At(t, RunEnd(t, p + 2, Spaces)) \in WordChars
    THEN RunEnd(t, p + 2, Spaces) + 1
    ELSE -1

RECURSIVE RejoinFrom(_, _)
RejoinFrom(t, p) ==
    IF p >= Len(t) THEN << >>
    ELSE LET e == HyphenMatchEnd(t, p)
         IN  IF e >= 0
             THEN <<At(t, p), At(t, e - 1)>> \o RejoinFrom(t, e)
             ELSE <<At(t, p)>> \o RejoinFrom(t, p + 1)

RejoinHyphens(t) == RejoinFrom(t, 0)

\* re.sub(r'Page \d+ of \d+', '', text)
PageMatchEnd(t, p) ==
    IF Slice(t, p, p + 5) = <<"P", "a", "g", "e", " ">> /\ At(t, p + 5) \in Digits
    THEN LET d == RunEnd(t, p + 5, Digits)
         IN  IF Slice(t, d, d + 4) = <<" ", "o", "f", " ">> /\ At(t, d + 4) \in Digits
             THEN RunEnd(t, d + 4, Digits)
             ELSE -1
    ELSE -1

RECURSIVE RemovePagesFrom(_, _)
RemovePagesFrom(t, p) ==
    IF p >= Len(t) THEN << >>
    ELSE LET e == PageMatchEnd(t, p)
         IN  IF e >= 0
             THEN RemovePagesFrom(t, e)
             ELSE <<At(t, p)>> \o RemovePagesFrom(t, p + 1)

RemovePageNumbers(t) == RemovePagesFrom(t, 0)

\* unicodedata.normalize('NFKC', c) of one character: the compatibility
\* characters of the model are mapped to their ASCII forms, ASCII is fixed
NFKCChar(c) ==
    CASE c = "U+FF0D" -> <<"-">>
      [] c = "U+2026" -> <<".", ".", ".">>
      [] OTHER -> <<c>>

RECURSIVE NFKC(_)
NFKC(t) == IF t = << >> THEN << >> ELSE NFKCChar(Head(t)) \o NFKC(Tail(t))

clean_text(text) ==
    NFKC(RemovePageNumbers(RejoinHyphens(CollapseWhitespace(text))))

---------------------------------------------------------------------------
(* DocumentProcessor.chunk_documents: the boundary patterns                *)

\* where a match that starts at offset s finds its first digit: the anchor
\* (?:\n|\A) followed by \s*; -1 when s is no anchor or no digit follows
MarkerDigits(t, s) ==
    IF s = 0 \/ At(t, s) = "\n"
    THEN LET d == RunEnd(t, s, Spaces)
         IN  IF At(t, d) \in Digits THEN d ELSE -1
    ELSE -1

\* [^\n]{2,}?(?:[?:\.]) from offset a: the lazy quantifier stops at the first
\* terminator that has at least two characters of the same line before it;
\* the offset after that terminator, -1 when the line has none
LazyEnd(t, a) ==
    LET eol == RunEnd(t, a, {t[j] : j \in 1..Len(t)} \ {"\n"})
        xs  == {x \in (a + 2)..(eol - 1) : At(t, x) \in Terminators}
    IN  IF xs = {} THEN -1
        ELSE 1 + (CHOOSE x \in xs : \A y \in xs : x <= y)

\* \d+[\.,]?\s*(?:[A-Za-z0-9])[^\n]{2,}?(?:[?:\.]) with \d+ ending at offset e
\* and the separator taken or not: the end of the match, -1 for no match
QuestionTail(t, e, sep) ==
    IF sep /\ At(t, e) \notin Separators THEN -1
    ELSE LET w == RunEnd(t, IF sep THEN e + 1 ELSE e, Spaces)
         IN  IF At(t, w) \in AsciiAlnum THEN LazyEnd(t, w + 1) ELSE -1

\* question_pattern at offset s.  The regex engine backtracks in this
\* order: the longest \d+ first, and for each the separator taken before
\* not taken; the first alternative that matches is the match.
QuestionMatchEnd(t, s) ==
    LET d == MarkerDigits(t, s)
    IN  IF d < 0 THEN -1
        ELSE LET dEnd == RunEnd(t, d, Digits)
                 ok   == {e \in (d + 1)..dEnd :
                             QuestionTail(t, e, TRUE) >= 0 \/ QuestionTail(t, e, FALSE) >= 0}
             IN  IF ok = {} THEN -1
                 ELSE LET e == CHOOSE x \in ok : \A y \in ok : y <= x
                      IN  IF QuestionTail(t, e, TRUE) >= 0
                          THEN QuestionTail(t, e, TRUE)
                          ELSE QuestionTail(t, e, FALSE)

\* simple_pattern (?:\n|\A)\s*(\d+[\.,]) at offset s
SimpleMatchEnd(t, s) ==
    LET d == MarkerDigits(t, s)
    IN  IF d < 0 THEN -1
        ELSE LET dEnd == RunEnd(t, d, Digits)
             IN  IF At(t, dEnd) \in Separators THEN dEnd + 1 ELSE -1

PatternMatchEnd(pattern, t, s) ==
    IF pattern = "question_pattern" THEN QuestionMatchEnd(t, s) ELSE SimpleMatchEnd(t, s)

\* list(re.finditer(pattern, text)) scanning from offset s: each match is
\* [start |-> match.start(), group1 |-> match.start(1), end |-> match.end()]
RECURSIVE FindIterFrom(_, _, _)
FindIterFrom(pattern, t, s) ==
    IF s > Len(t) THEN << >>
    ELSE LET e == PatternMatchEnd(pattern, t, s)
         IN  IF e >= 0
             THEN <<[start |-> s, group1 |-> MarkerDigits(t, s), end |-> e]>>
                      \o FindIterFrom(pattern, t, e)
             ELSE FindIterFrom(pattern, t, s + 1)

FindIter(pattern, t) == FindIterFrom(pattern, t, 0)

\* Matches with the two patterns tried in the other order
Matches_SimpleFirst(t) ==
    IF FindIter("simple_pattern", t) # << >>
    THEN FindIter("simple_pattern", t)
    ELSE FindIter("question_pattern", t)

\* the matches the chunker works with: question_pattern, then
\* simple_pattern when that found nothing
Matches(t) ==
    IF FindIter("question_pattern", t) # << >>
    THEN FindIter("question_pattern", t)
    ELSE FindIter("simple_pattern", t)

\* int(re.match(r'\s*(\d+)[\.,]?', match.group(1)).group(1))
QuestionNumber(t, m) == ParseInt(Slice(t, m.group1, RunEnd(t, m.group1, Digits)))

\* re.sub(r'^\s*\d+[\.,]?\s*', '', question).strip()
QuestionText(question) ==
    LET d == RunEnd(question, RunEnd(question, 0, Spaces), Digits)
        q == IF At(question, d) \in Separators THEN d + 1 ELSE d
    IN  IF d = RunEnd(question, 0, Spaces) THEN Strip(question)
        ELSE Strip(Slice(question, RunEnd(question, q, Spaces), Len(question)))

\* PositionsOf taking match.end() for the position of a match
RECURSIVE PositionsOf_MatchEnd(_, _)
PositionsOf_MatchEnd(t, ms) ==
    IF ms = << >> THEN << >>
    ELSE <<[pos |-> Head(ms).end,
            q_num |-> QuestionNumber(t, Head(ms)),
            question |-> Slice(t, Head(ms).group1, Head(ms).end)]>>
             \o PositionsOf_MatchEnd(t, Tail(ms))

\* positions: (match.start(), q_num, match.group(1)) for every match
RECURSIVE PositionsOf(_, _)
PositionsOf(t, ms) ==
    IF ms = << >> THEN << >>
    ELSE <<[pos |-> Head(ms).start,
            q_num |-> QuestionNumber(t, Head(ms)),
            question |-> Slice(t, Head(ms).group1, Head(ms).end)]>>
             \o PositionsOf(t, Tail(ms))

\* positions.sort(key=lambda x: x[1]): a stable sort, by insertion
RECURSIVE InsertByNumber(_, _)
InsertByNumber(sorted, x) ==
    IF sorted = << >> THEN <<x>>
    ELSE IF sorted[Len(sorted)].q_num <= x.q_num THEN Append(sorted, x)
    ELSE Append(InsertByNumber(SubSeq(sorted, 1, Len(sorted) - 1), x), sorted[Len(sorted)])

\* SortByNumber leaving the list in text order
SortByNumber_TextOrder(ps) == ps

RECURSIVE SortByNumber(_)
SortByNumber(ps) ==
    IF ps = << >> THEN << >>
    ELSE InsertByNumber(SortByNumber(SubSeq(ps, 1, Len(ps) - 1)), ps[Len(ps)])

SortedPositions(t) == SortByNumber(PositionsOf(t, Matches(t)))

\* EndPos with the test for the last entry off by one: the entry before the
\* last also runs to the end of the text
EndPos_LastTestOffByOne(t, positions, i) ==
    IF i < Len(positions) - 1 THEN positions[i + 1].pos ELSE Len(t)

\* end_pos = positions[i+1][0] if i < len(positions) - 1 else len(text)
EndPos(t, positions, i) ==
    IF i < Len(positions) THEN positions[i + 1].pos ELSE Len(t)

---------------------------------------------------------------------------
(* DocumentProcessor.extract_metadata                                      *)

\* the literal lit stands at offset p
LiteralAt(t, p, lit) == Slice(t, p, p + Len(lit)) = lit

\* the least element of a non-empty set of offsets
Least(xs) == CHOOSE x \in xs : \A y \in xs : x <= y

\* the end of the line that offset a is on (. does not match a newline)
LineEnd(t, a) == RunEnd(t, a, {t[j] : j \in 1..Len(t)} \ {"\n"})

TitleWords ==
    << <<"P", "a", "s", "s">>, <<"O", "f", "f", "e", "r">>,
       <<"L", "a", "u", "n", "c", "h">>, <<"S", "e", "r", "i", "e", "s">> >>

\* (CelcomDigi.*?)(Pass|Offer|Launch|Series) at offset p: the lazy .*? stops
\* at the first terminator word of the line; the end of the match or -1
TitleRule1End(t, p) ==
    IF ~LiteralAt(t, p, <<"C", "e", "l", "c", "o", "m", "D", "i", "g", "i">>) THEN -1
    ELSE LET starts == {x \in (p + 10)..LineEnd(t, p + 10) :
                           \E i \in 1..4 : LiteralAt(t, x, TitleWords[i])}
         IN  IF starts = {} THEN -1
             ELSE LET x == Least(starts)
                      i == CHOOSE j \in 1..4 : LiteralAt(t, x, TitleWords[j])
                  IN  x + Len(TitleWords[i])

\* lit, then \s+ : the offset after the whitespace, -1 for no match
LiteralSpaces(t, p, lit) ==
    IF p >= 0 /\ LiteralAt(t, p, lit) /\ At(t, p + Len(lit)) \in Spaces
    THEN RunEnd(t, p + Len(lit), Spaces)
    ELSE -1

\* Port-In\s+Rebate\s+Offer at offset p
PortInEnd(t, p) ==
    LET a == LiteralSpaces(t, p, <<"P", "o", "r", "t", "-", "I", "n">>)
        b == LiteralSpaces(t, a, <<"R", "e", "b", "a", "t", "e">>)
    IN  IF b >= 0 /\ LiteralAt(t, b, <<"O", "f", "f", "e", "r">>) THEN b + 5 ELSE -1

\* Samsung\s+Galaxy\s+S\d+\s+Series at offset p
SamsungEnd(t, p) ==
    LET a == LiteralSpaces(t, p, <<"S", "a", "m", "s", "u", "n", "g">>)
        b == LiteralSpaces(t, a, <<"G", "a", "l", "a", "x", "y">>)
    IN  IF b >= 0 /\ At(t, b) = "S" /\ At(t, b + 1) \in Digits
           /\ At(t, RunEnd(t, b + 1, Digits)) \in Spaces
           /\ LiteralAt(t, RunEnd(t, RunEnd(t, b + 1, Digits), Spaces),
                        <<"S", "e", "r", "i", "e", "s">>)
        THEN RunEnd(t, RunEnd(t, b + 1, Digits), Spaces) + 6
        ELSE -1

TitleRule2End(t, p) == IF PortInEnd(t, p) >= 0 THEN PortInEnd(t, p) ELSE SamsungEnd(t, p)

\* (?:\s*at\s*[\d:]+\s*[AP]M)? at offset p: the offset after it, p when absent
DateTimeEnd(t, p) ==
    LET a == RunEnd(t, p, Spaces)
        b == RunEnd(t, a + 2, Spaces)
        c == RunEnd(t, b, Digits \cup {":"})
        d == RunEnd(t, c, Spaces)
    IN  IF /\ LiteralAt(t, a, <<"a", "t">>)
           /\ c > b
           /\ At(t, d) \in {"A", "P"}
           /\ At(t, d + 1) = "M"
        THEN d + 2
        ELSE p

\* Modified on ([A-Za-z]+,\s*\d+\s*[A-Za-z]+(?:\s*at\s*[\d:]+\s*[AP]M)?) at p
DateEnd(t, p) ==
    IF ~LiteralAt(t, p, <<"M", "o", "d", "i", "f", "i", "e", "d", " ", "o", "n", " ">>)
    THEN -1
    ELSE LET a == RunEnd(t, p + 12, Lower \cup Upper)
             b == RunEnd(t, a + 1, Spaces)
             c == RunEnd(t, b, Digits)
             d == RunEnd(t, c, Spaces)
             e == RunEnd(t, d, Lower \cup Upper)
         IN  IF a > p + 12 /\ At(t, a) = "," /\ c > b /\ e > d
             THEN DateTimeEnd(t, e)
             ELSE -1

\* \d+[\.,]\s+(.*?)[.?] at offset p: <<start of group 1, end of group 1>>,
\* << >> for no match
DescriptionGroup(t, p) ==
    IF At(t, p) \notin Digits THEN << >>
    ELSE LET d == RunEnd(t, p, Digits)
             w == RunEnd(t, d + 1, Spaces)
             xs == {x \in w..(LineEnd(t, w) - 1) : At(t, x) \in {".", "?"}}
         IN  IF At(t, d) \in Separators /\ At(t, d + 1) \in Spaces /\ xs # {}
             THEN <<w, Least(xs)>>
             ELSE << >>

\* re.search: the match at the leftmost offset where the pattern matches
TitleRule1Starts(t) == {p \in 0..Len(t) : TitleRule1End(t, p) >= 0}

TitleRule2Starts(t) == {p \in 0..Len(t) : TitleRule2End(t, p) >= 0}

DateStarts(t) == {p \in 0..Len(t) : DateEnd(t, p) >= 0}

\* ExtractTitle with the campaign phrases searched before the brand pattern
ExtractTitle_Rule2First(t, source) ==
    IF TitleRule2Starts(t) # {}
    THEN Slice(t, Least(TitleRule2Starts(t)), TitleRule2End(t, Least(TitleRule2Starts(t))))
    ELSE IF TitleRule1Starts(t) # {}
    THEN Slice(t, Least(TitleRule1Starts(t)), TitleRule1End(t, Least(TitleRule1Starts(t))))
    ELSE source

ExtractTitle(t, source) ==
    IF TitleRule1Starts(t) # {}
    THEN Slice(t, Least(TitleRule1Starts(t)), TitleRule1End(t, Least(TitleRule1Starts(t))))
    ELSE IF TitleRule2Starts(t) # {}
    THEN Slice(t, Least(TitleRule2Starts(t)), TitleRule2End(t, Least(TitleRule2Starts(t))))
    ELSE source

ExtractDate(t) ==
    IF DateStarts(t) # {}
    THEN Slice(t, Least(DateStarts(t)) + 12, DateEnd(t, Least(DateStarts(t))))
    ELSE << >>

ExtractDescription(t) ==
    LET ps == {p \in 0..Len(t) : DescriptionGroup(t, p) # << >>}
    IN  IF ps = {} THEN << >>
        ELSE Strip(Slice(t, DescriptionGroup(t, Least(ps))[1],
                         DescriptionGroup(t, Least(ps))[2]))

\* extract_metadata leaving the date key out when no date was found
extract_metadata_DateOptional(document) ==
    IF ExtractDate(document.page_content) = << >>
    THEN [source |-> document.metadata.source,
          title |-> ExtractTitle(document.page_content, document.metadata.source),
          description |-> ExtractDescription(document.page_content)]
    ELSE [source |-> document.metadata.source,
          title |-> ExtractTitle(document.page_content, document.metadata.source),
          date |-> ExtractDate(document.page_content),
          description |-> ExtractDescription(document.page_content)]

extract_metadata(document) ==
    [source |-> document.metadata.source,
     title |-> ExtractTitle(document.page_content, document.metadata.source),
     date |-> ExtractDate(document.page_content),
     description |-> ExtractDescription(document.page_content)]

---------------------------------------------------------------------------
(* DocumentProcessor.chunk_documents                                       *)

\* RecursiveCharacterTextSplitter(chunk_size=1000, ...)
ChunkSize == 1000

\* text_splitter.split_text(text) for a text shorter than chunk_size: the
\* pieces the splitter cuts at its separators are all merged back into one
\* window, which is stripped and left out when nothing remains
split_text(text) == IF Strip(text) = << >> THEN << >> ELSE <<Strip(text)>>

\* the chunks of a document without question boundaries; pos and end_pos
\* are the loop's locals, which this branch does not have
RECURSIVE StandardChunks(_, _, _)
StandardChunks(windows, metadata, d) ==
    IF windows = << >> THEN << >>
    ELSE <<[page_content |-> clean_text(Head(windows)), metadata |-> metadata,
            doc |-> d, pos |-> -1, end_pos |-> -1]>>
             \o StandardChunks(Tail(windows), metadata, d)

\* the loop over the sorted positions, from entry i on
RECURSIVE QuestionChunks(_, _, _, _, _)
QuestionChunks(t, positions, metadata, d, i) ==
    IF i > Len(positions) THEN << >>
    ELSE LET pos == positions[i].pos
             end_pos == EndPos(t, positions, i)
             chunk_text == clean_text(Strip(Slice(t, pos, end_pos)))
             chunk_metadata ==
                 [question |-> QuestionText(positions[i].question),
                  question_number |-> positions[i].q_num] @@ metadata
         IN  (IF chunk_text # << >>
              THEN <<[page_content |-> chunk_text, metadata |-> chunk_metadata,
                      doc |-> d, pos |-> pos, end_pos |-> end_pos]>>
              ELSE << >>)
                 \o QuestionChunks(t, positions, metadata, d, i + 1)

\* one iteration of the loop over the documents: the chunks of document d
DocumentChunks(document, d) ==
    IF Matches(document.page_content) = << >>
    THEN StandardChunks(split_text(document.page_content), extract_metadata(document), d)
    ELSE QuestionChunks(document.page_content, SortedPositions(document.page_content),
                        extract_metadata(document), d, 1)

\* ChunksFrom putting the chunks of a later document first
RECURSIVE ChunksFrom_Reversed(_, _)
ChunksFrom_Reversed(docs, d) ==
    IF d > Len(docs) THEN << >>
    ELSE ChunksFrom_Reversed(docs, d + 1) \o DocumentChunks(docs[d], d)

RECURSIVE ChunksFrom(_, _)
ChunksFrom(docs, d) ==
    IF d > Len(docs) THEN << >>
    ELSE DocumentChunks(docs[d], d) \o ChunksFrom(docs, d + 1)

chunk_documents(docs) == ChunksFrom(docs, 1)

---------------------------------------------------------------------------
(* DocumentProcessor.save_chunks_to_file.  The file is kept as its lines:  *)
(* every string the method writes ends with a newline.                     *)

\* the offset of the first newline of a text, its length when it has none
FirstNewline(t) ==
    IF \E q \in 1..Len(t) : t[q] = "\n"
    THEN CHOOSE q \in 0..(Len(t) - 1) :
             /\ t[q + 1] = "\n"
             /\ \A j \in 1..q : t[j] # "\n"
    ELSE Len(t)

\* the lines of a text in which every line is ended by "\n"
RECURSIVE Lines(_)
Lines(t) ==
    IF t = << >> THEN << >>
    ELSE <<Slice(t, 0, FirstNewline(t))>> \o Lines(Slice(t, FirstNewline(t) + 1, Len(t)))

DigitChar(n) == CHOOSE c \in Digits : DigitVal(c) = n

\* str(n) of a number n >= 0, as the f-strings format len(chunks) and i+1
RECURSIVE Str(_)
Str(n) == IF n < 10 THEN <<DigitChar(n)>> ELSE Str(n \div 10) \o <<DigitChar(n % 10)>>

\* "-" * 80
Rule == [j \in 1..80 |-> "-"]

\* chunk.metadata.get(key, default)
MetadataGet(chunk, key, default) ==
    IF key \in DOMAIN chunk.metadata THEN chunk.metadata[key] ELSE default

\* the Question: line of a block, written for every chunk
QuestionLines_Always(chunk) ==
    Lines(<<"Q", "u", "e", "s", "t", "i", "o", "n", ":", " ">>
              \o MetadataGet(chunk, "question", << >>) \o <<"\n">>)

\* the Question: line of a block: if "question" in chunk.metadata
QuestionLines(chunk) ==
    IF "question" \in DOMAIN chunk.metadata
    THEN Lines(<<"Q", "u", "e", "s", "t", "i", "o", "n", ":", " ">>
                   \o MetadataGet(chunk, "question", << >>) \o <<"\n">>)
    ELSE << >>

\* what the loop body writes for chunk, the i-th of the list counting from 0
ChunkBlock(chunk, i) ==
    Lines(<<"C", "H", "U", "N", "K", " ">> \o Str(i + 1) \o <<"\n">>)
        \o Lines(<<"S", "o", "u", "r", "c", "e", ":", " ">>
                     \o MetadataGet(chunk, "source", <<"U", "n", "k", "n", "o", "w", "n">>) \o <<"\n">>)
        \o Lines(<<"T", "i", "t", "l", "e", ":", " ">>
                     \o MetadataGet(chunk, "title", <<"U", "n", "k", "n", "o", "w", "n">>) \o <<"\n">>)
        \o QuestionLines(chunk)
        \o Lines(Rule \o <<"\n">>)
        \o Lines(chunk.page_content \o <<"\n">>)
        \o Lines(Rule \o <<"\n", "\n">>)

RECURSIVE BlocksFrom(_, _)
BlocksFrom(chunks, i) ==
    IF i >= Len(chunks) THEN << >>
    ELSE ChunkBlock(chunks[i + 1], i) \o BlocksFrom(chunks, i + 1)

save_chunks_to_file(chunks) ==
    Lines(<<"T", "o", "t", "a", "l", " ", "c", "h", "u", "n", "k", "s", ":", " ">>
              \o Str(Len(chunks)) \o <<"\n", "\n">>)
        \o BlocksFrom(chunks, 0)

---------------------------------------------------------------------------
(* The texts the model is run on: concatenations of a few fragments, the   *)
(* lines and line parts the patterns of the processor react to.            *)

MaxFragments == 4

Fragments ==
    { <<"\n", "1", ".", " ", "a", "b", "c", "?">>,
      <<"\n", "2", ".", " ", "c", "d", "e", ".">>,
      <<"\n", "2", ".">>,
      <<"\n", "3", " ", "f", "g", "h", ":">>,
      <<"4", ",", " ", "i", "j", " ", "k", ":">>,
      <<"x", "y", " ">>,
      <<"P", "a", "g", "e", " ", "1", " ", "o", "f", " ", "2", "\f">> }

RECURSIVE TextsOf(_, _)
TextsOf(frags, n) ==
    IF n = 0 THEN {<< >>}
    ELSE TextsOf(frags, n - 1) \cup {t \o f : t \in TextsOf(frags, n - 1), f \in frags}

Texts == TextsOf(Fragments, MaxFragments)

\* the texts of the runs over two PDFs
PairTexts ==
    { <<"\n", "1", ".", " ", "a", "b", "c", "?">> \o <<"\n", "2", ".", " ", "c", "d", "e", ".">>,
      <<"\n", "2", ".">> \o <<"x", "y", " ">>,
      <<"\n", "2", ".", " ", "c", "d", "e", ".">> \o <<"\n", "1", ".", " ", "a", "b", "c", "?">>
          \o <<"\n", "3", " ", "f", "g", "h", ":">>,
      <<"x", "y", " ">>,
      <<"\n">> }

SourceA == <<"A">>
SourceB == <<"B">>

PdfLists ==
    {<< >>}
      \cup {<<[source |-> SourceA, text |-> t]>> : t \in Texts}
      \cup {<<[source |-> SourceA, text |-> t], [source |-> SourceB, text |-> u]>> :
               t \in PairTexts, u \in PairTexts}

---------------------------------------------------------------------------
(* DocumentProcessor.process_documents: load_documents, chunk_documents    *)

\* load_documents: a document for every PDF whose OCR text is not blank
RECURSIVE load_documents(_)
load_documents(pdfs) ==
    IF pdfs = << >> THEN << >>
    ELSE (IF Len(Strip(Head(pdfs).text)) > 0
          THEN <<[page_content |-> Head(pdfs).text,
                  metadata |-> [source |-> Head(pdfs).source]]>>
          ELSE << >>)
             \o load_documents(Tail(pdfs))

IdleProcess ==
    /\ pdf_files = << >>
    /\ documents = << >>
    /\ all_chunks = << >>
    /\ document_chunks_txt = << >>
    /\ pcProcess = "idle"

IdleMain == pcMain = "idle"

IdleClean ==
    /\ raw_text = << >>
    /\ cleaned = << >>

IdleMeta ==
    /\ meta_document = [page_content |-> << >>, metadata |-> [source |-> << >>]]
    /\ meta_result = << >>

IdleChat ==
    /\ rag_system = "none"
    /\ messages = << >>
    /\ script_runs = 0
    /\ pcChat = "idle"
    /\ run_prompt = "none"
    /\ run_retrieved_docs = << >>
    /\ run_full_response = << >>

InitProcess ==
    /\ pdf_files \in PdfLists
    /\ \A i \in 1..Len(pdf_files) : Len(pdf_files[i].text) < ChunkSize
    /\ documents = << >>
    /\ all_chunks = << >>
    /\ document_chunks_txt = << >>
    /\ pcProcess = "load"

LoadDocuments ==
    /\ pcProcess = "load"
    /\ documents' = load_documents(pdf_files)
    /\ pcProcess' = "chunk"
    /\ UNCHANGED <<pdf_files, all_chunks, document_chunks_txt, cleanVars, metaVars, evalVars, chatVars, mainVars>>

ChunkDocuments ==
    /\ pcProcess = "chunk"
    /\ all_chunks' = chunk_documents(documents)
    /\ pcProcess' = "save"
    /\ UNCHANGED <<pdf_files, documents, document_chunks_txt,
                   cleanVars, metaVars, evalVars, chatVars, mainVars>>

\* self.save_chunks_to_file(chunks), and process_documents returns
SaveChunks ==
    /\ pcProcess = "save"
    /\ document_chunks_txt' = save_chunks_to_file(all_chunks)
    /\ pcProcess' = "done"
    /\ UNCHANGED <<pdf_files, documents, all_chunks,
                   cleanVars, metaVars, evalVars, chatVars, mainVars>>

---------------------------------------------------------------------------
(* clean_text applied to a text, and again to its own result               *)

MaxCleanFragments == 3

MaxPasses == 2

CleanFragments ==
    { <<"a", " ">>, <<"b">>, <<"-", " ">>, <<"\n">>, <<"\f">>, <<"U+FF0D">>,
      <<"P", "a", "g", "e", " ", "1", " ", "o", "f", " ", "2", " ">> }

InitClean ==
    /\ raw_text \in TextsOf(CleanFragments, MaxCleanFragments)
    /\ cleaned = << >>

CleanText ==
    /\ Len(cleaned) < MaxPasses
    /\ cleaned' = Append(cleaned, clean_text(IF cleaned = << >> THEN raw_text
                                             ELSE cleaned[Len(cleaned)]))
    /\ UNCHANGED <<raw_text, procVars, metaVars, evalVars, chatVars, mainVars>>

---------------------------------------------------------------------------
(* extract_metadata applied to a document on its own                       *)

MaxMetaFragments == 3

\* parts of titles, a date line and a numbered item
MetaFragments ==
    { <<"C", "e", "l", "c", "o", "m", "D", "i", "g", "i", " ", "R", "a", "y", "a", " ">>,
      <<"O", "f", "f", "e", "r">>,
      <<" ", "e", "x", "t", "r", "a", " ", "t", "e", "x", "t">>,
      <<"P", "o", "r", "t", "-", "I", "n", " ", "R", "e", "b", "a", "t", "e", " ", "O", "f", "f", "e", "r">>,
      <<"S", "a", "m", "s", "u", "n", "g", " ", "G", "a", "l", "a", "x", "y", "\n", "S", "2", "5", " ", "S", "e", "r", "i", "e", "s">>,
      <<"\n">>,
      <<"\f">>,
      <<"M", "o", "d", "i", "f", "i", "e", "d", " ", "o", "n", " ", "M", "o", "n", ",", " ", "3", " ", "M", "a", "r">>,
      <<"1", ".", " ", "a", "b", " ", "c", "?", " ">>,
      <<"P", "a", "s", "s">> }

InitMeta ==
    /\ meta_document \in
           {[page_content |-> t, metadata |-> [source |-> SourceA]] :
               t \in TextsOf(MetaFragments, MaxMetaFragments)}
    /\ meta_result = << >>

ExtractMetadata ==
    /\ meta_result = << >>
    /\ meta_result' = extract_metadata(meta_document)
    /\ UNCHANGED <<meta_document, procVars, cleanVars, evalVars, chatVars, mainVars>>

---------------------------------------------------------------------------
(* The vector index.  An embedding is kept as what it decides: the         *)
(* distance of the stored chunk to each query.                             *)

Queries == {"Q1", "Q2"}

\* the distances the index can report: a chunk at the query, and one so far
\* from it that its relevance score falls below 0
Dists == {0, 2}

SourceC == <<"C">>

\* the documents create_vector_store may have stored; no chunk of SourceC
StoredChunks ==
    << [page_content |-> <<"A", "b", " ", "x">>, metadata |-> [source |-> SourceA]],
       [page_content |-> <<"c", "d">>, metadata |-> [source |-> SourceB]],
       [page_content |-> <<"a", "B">>, metadata |-> [source |-> SourceA]] >>

Corpora ==
    {<< >>} \cup
    { [i \in 1..Len(StoredChunks) |-> [doc |-> StoredChunks[i], dist |-> f[i]]] :
          f \in [1..Len(StoredChunks) -> [Queries -> Dists]] }

\* the order in which the index ranks the stored chunks for a query: by
\* ascending distance, chunks at the same distance in insertion order
RECURSIVE InsertByDistance(_, _, _, _)
InsertByDistance(chunks, query, ranked, i) ==
    IF ranked = << >> THEN <<i>>
    ELSE IF chunks[ranked[Len(ranked)]].dist[query] <= chunks[i].dist[query]
         THEN Append(ranked, i)
         ELSE Append(InsertByDistance(chunks, query, SubSeq(ranked, 1, Len(ranked) - 1), i),
                     ranked[Len(ranked)])

RECURSIVE RankUpTo(_, _, _)
RankUpTo(chunks, query, n) ==
    IF n = 0 THEN << >>
    ELSE InsertByDistance(chunks, query, RankUpTo(chunks, query, n - 1), n)

\* Chroma's relevance score falls as the distance grows (1 - d / sqrt(2) by
\* default); the model keeps that order
RelevanceScore(d) == 1 - d

\* vectorstore.similarity_search_with_relevance_scores(query=query, k=k):
\* the first k chunks of the ranking, each with its score
similarity_search_with_relevance_scores(store, query, kk) ==
    LET ranked == RankUpTo(store.chunks, query, Len(store.chunks))
        n == IF kk < Len(ranked) THEN kk ELSE Len(ranked)
    IN  [j \in 1..n |-> <<store.chunks[ranked[j]].doc,
                          RelevanceScore(store.chunks[ranked[j]].dist[query])>>]

\* the advisory warnings the index emits with a response: one about score
\* calibration when a relevance score lies outside [0, 1]
IndexWarnings(results) ==
    IF \E j \in 1..Len(results) : results[j][2] < 0 \/ results[j][2] > 1
    THEN {"UserWarning"}
    ELSE {}

\* whether the n-th query sent to the index raises: the index rejects a
\* request for fewer than one result, and it raises while it is down
IndexQueryRaises(kk, n) == kk <= 0 \/ n = index_fault

---------------------------------------------------------------------------
(* DocumentRetriever.retrieve                                              *)

\* FormatResults putting each result in front of the list instead of at
\* its end
RECURSIVE FormatResults_Prepend(_)
FormatResults_Prepend(results) ==
    IF results = << >> THEN << >>
    ELSE FormatResults_Prepend(Tail(results))
             \o <<[content |-> Head(results)[1].page_content,
                   metadata |-> Head(results)[1].metadata,
                   relevance_score |-> Head(results)[2]]>>

RECURSIVE FormatResults(_)
FormatResults(results) ==
    IF results = << >> THEN << >>
    ELSE <<[content |-> Head(results)[1].page_content,
            metadata |-> Head(results)[1].metadata,
            relevance_score |-> Head(results)[2]]>>
             \o FormatResults(Tail(results))

\* what retrieve returns when the index answers
retrieve(store, query, kk) ==
    FormatResults(similarity_search_with_relevance_scores(store, query, kk))

\* retrieve_call answering a failed query with an empty list
retrieve_call_MaskFailure(store, query, kk, raises) ==
    [raised |-> FALSE,
     value |-> IF raises THEN << >> ELSE retrieve(store, query, kk),
     queries |-> 1,
     warnings |-> {}]

\* retrieve_call without the warnings filter
retrieve_call_WarningsPass(store, query, kk, raises) ==
    [raised |-> raises,
     value |-> IF raises THEN << >> ELSE retrieve(store, query, kk),
     queries |-> 1,
     warnings |-> IF raises THEN {}
                  ELSE IndexWarnings(similarity_search_with_relevance_scores(store, query, kk))]

\* one call of retrieve: whether the exception of the index left it, the
\* list it returned, the number of queries it sent to the index and the
\* warnings that left it.  The query is sent once, inside
\* warnings.catch_warnings() with simplefilter("ignore"), and nothing
\* catches what it raises.
retrieve_call(store, query, kk, raises) ==
    [raised |-> raises,
     value |-> IF raises THEN << >> ELSE retrieve(store, query, kk),
     queries |-> 1,
     warnings |-> {}]

---------------------------------------------------------------------------
(* evaluation.evaluate_recall_at_k                                         *)

MaxCases == 2

MaxK == 2

\* what time.time() can measure for one retrieval
Ticks == {0, 1}

Cases ==
    { [question |-> "Q1", expected_answer |-> <<"a", "b">>, source_document |-> SourceA],
      [question |-> "Q2", source_document |-> SourceB],
      [question |-> "Q1", expected_answer |-> <<"z">>, source_document |-> SourceC],
      [question |-> "Q2", expected_answer |-> <<"c", "d">>, source_document |-> SourceA] }

RECURSIVE CaseLists(_)
CaseLists(n) ==
    IF n = 0 THEN {<< >>}
    ELSE CaseLists(n - 1) \cup {Append(cs, c) : cs \in CaseLists(n - 1), c \in Cases}

\* sources = [doc["metadata"].get("source", "Unknown") for doc in retrieved_docs]
SourcesOf(retrieved_docs) ==
    [j \in 1..Len(retrieved_docs) |-> retrieved_docs[j].metadata.source]

\* CorrectRetrieval looking at the top result only
CorrectRetrieval_TopOnly(source_doc, sources) ==
    sources # << >> /\ sources[1] = source_doc

\* CorrectRetrieval looking at the last result only
CorrectRetrieval_LastOnly(source_doc, sources) ==
    sources # << >> /\ sources[Len(sources)] = source_doc

\* correct_retrieval = source_doc in sources
CorrectRetrieval(source_doc, sources) ==
    \E j \in 1..Len(sources) : sources[j] = source_doc

RECURSIVE Gcd(_, _)
Gcd(a, b) == IF b = 0 THEN a ELSE Gcd(b, a % b)

\* a / b, as the fraction in lowest terms
Divide(a, b) == <<a \div Gcd(a, b), b \div Gcd(a, b)>>

RECURSIVE Sum(_)
Sum(xs) == IF xs = << >> THEN 0 ELSE Head(xs) + Sum(Tail(xs))

\* the points at which the index can be down
FaultPoints == {0, 1, 2}

IdleEval ==
    /\ chroma_db = [exists |-> FALSE, chunks |-> << >>]
    /\ existed_at_start = FALSE
    /\ vectorstore = [loaded |-> FALSE, chunks |-> << >>]
    /\ TEST_QUESTIONS = << >>
    /\ argv = << >>
    /\ invalid_k_report = << >>
    /\ k = 0
    /\ index_fault = 0
    /\ case_index = 0
    /\ correct_retrievals = 0
    /\ retrieval_times = << >>
    /\ retrieved_log = << >>
    /\ index_log = << >>
    /\ warnings_seen = {}
    /\ queries_issued = 0
    /\ report = << >>
    /\ error = "none"
    /\ pcEval = "idle"

\* a call evaluate_recall_at_k(k) with a positive k
InitEval ==
    /\ chroma_db \in {[exists |-> FALSE, chunks |-> << >>]}
                       \cup {[exists |-> TRUE, chunks |-> c] : c \in Corpora}
    /\ existed_at_start = chroma_db.exists
    /\ vectorstore = [loaded |-> FALSE, chunks |-> << >>]
    /\ TEST_QUESTIONS \in CaseLists(MaxCases) \ {<< >>}
    /\ argv = << >>
    /\ invalid_k_report = << >>
    /\ k \in 1..MaxK
    /\ index_fault \in FaultPoints
    /\ case_index = 1
    /\ correct_retrievals = 0
    /\ retrieval_times = << >>
    /\ retrieved_log = << >>
    /\ index_log = << >>
    /\ warnings_seen = {}
    /\ queries_issued = 0
    /\ report = << >>
    /\ error = "none"
    /\ pcEval = "start"

\* DocumentEmbedder.__init__(persist_directory): HuggingFaceEmbeddings(...)
\* is built first, and its exception leaves the constructor before
\* os.makedirs(self.persist_directory, exist_ok=True) is reached
DocumentEmbedder(db, model_ok) ==
    IF model_ok
    THEN [raised |-> FALSE, chroma_db |-> [db EXCEPT !.exists = TRUE]]
    ELSE [raised |-> TRUE, chroma_db |-> db]

\* embedder = DocumentEmbedder(persist_directory="chroma_db"); an exception
\* of the constructor leaves evaluate_recall_at_k
EmbedderInit ==
    /\ pcEval = "start"
    /\ \E model_ok \in BOOLEAN :
           LET made == DocumentEmbedder(chroma_db, model_ok)
           IN  /\ chroma_db' = made.chroma_db
               /\ IF made.raised
                  THEN /\ error' = "embedding model exception"
                       /\ pcEval' = "failed"
                  ELSE /\ pcEval' = "load"
                       /\ UNCHANGED error
    /\ UNCHANGED <<existed_at_start, vectorstore, TEST_QUESTIONS, argv, invalid_k_report,
                   k, index_fault, case_index, correct_retrievals, retrieval_times,
                   retrieved_log, index_log, warnings_seen, queries_issued, report,
                   procVars, cleanVars, metaVars, chatVars, mainVars>>

\* vectorstore = embedder.load_vector_store()
LoadVectorStore ==
    /\ pcEval = "load"
    /\ IF ~chroma_db.exists
       THEN /\ error' = "ValueError"
            /\ pcEval' = "failed"
            /\ UNCHANGED vectorstore
       ELSE /\ vectorstore' = [loaded |-> TRUE, chunks |-> chroma_db.chunks]
            /\ pcEval' = "loop"
            /\ UNCHANGED error
    /\ UNCHANGED <<chroma_db, existed_at_start, TEST_QUESTIONS, argv, invalid_k_report,
                   k, index_fault, case_index, correct_retrievals, retrieval_times,
                   retrieved_log, index_log, warnings_seen, queries_issued, report,
                   procVars, cleanVars, metaVars, chatVars, mainVars>>

\* one iteration of the loop over TEST_QUESTIONS; an exception of the index
\* leaves retrieve and the loop, and ends the run
EvaluateCase ==
    /\ pcEval = "loop"
    /\ case_index <= Len(TEST_QUESTIONS)
    /\ LET test_case == TEST_QUESTIONS[case_index]
           raises == IndexQueryRaises(k, queries_issued + 1)
           results == IF raises THEN << >>
                      ELSE similarity_search_with_relevance_scores(
                               vectorstore, test_case.question, k)
           call == retrieve_call(vectorstore, test_case.question, k, raises)
       IN  /\ queries_issued' = queries_issued + call.queries
           /\ index_log' = Append(index_log, [raised |-> raises, results |-> results,
                                              warnings |-> IndexWarnings(results)])
           /\ warnings_seen' = warnings_seen \cup call.warnings
           /\ IF call.raised
              THEN /\ error' = "index exception"
                   /\ pcEval' = "failed"
                   /\ UNCHANGED <<retrieved_log, correct_retrievals, retrieval_times,
                                  case_index>>
              ELSE /\ retrieved_log' = Append(retrieved_log, call.value)
                   /\ correct_retrievals' =
                          IF CorrectRetrieval(test_case.source_document, SourcesOf(call.value))
                          THEN correct_retrievals + 1
                          ELSE correct_retrievals
                   /\ \E retrieval_time \in Ticks :
                          retrieval_times' = Append(retrieval_times, retrieval_time)
                   /\ case_index' = case_index + 1
                   /\ UNCHANGED <<error, pcEval>>
    /\ UNCHANGED <<chroma_db, existed_at_start, vectorstore, TEST_QUESTIONS, argv,
                   invalid_k_report, k, index_fault, report,
                   procVars, cleanVars, metaVars, chatVars, mainVars>>

\* after the loop: the metrics and the returned dict
ReturnReport ==
    /\ pcEval = "loop"
    /\ case_index > Len(TEST_QUESTIONS)
    /\ report' = [recall_at_k |-> Divide(correct_retrievals, Len(TEST_QUESTIONS)),
                  avg_retrieval_time |-> Divide(Sum(retrieval_times), Len(retrieval_times))]
    /\ pcEval' = "done"
    /\ UNCHANGED <<chroma_db, existed_at_start, vectorstore, TEST_QUESTIONS, argv,
                   invalid_k_report, k, index_fault, case_index, correct_retrievals,
                   retrieval_times, retrieved_log, index_log, warnings_seen,
                   queries_issued, error, procVars, cleanVars, metaVars, chatVars, mainVars>>

---------------------------------------------------------------------------
(* evaluation.py run as a program: the __main__ block                      *)

\* int(s) for a string s, << >> for ValueError: the whitespace around the
\* literal is dropped, one sign may lead it, and single underscores may
\* stand between its digits
IntDigits(s) ==
    /\ s # << >>
    /\ s[1] \in Digits
    /\ s[Len(s)] \in Digits
    /\ \A j \in 1..Len(s) : s[j] \in Digits \cup {"_"}
    /\ \A j \in 1..(Len(s) - 1) : ~(s[j] = "_" /\ s[j + 1] = "_")

\* int with every ValueError answered by 0
int_ZeroOnError(s) ==
    LET b == StripOf(s, IntSpaces)
        signed == b # << >> /\ b[1] \in {"+", "-"}
        body == IF signed THEN Tail(b) ELSE b
        magnitude == ParseInt(SelectSeq(body, LAMBDA c : c \in Digits))
    IN  IF IntDigits(body)
        THEN <<IF signed /\ b[1] = "-" THEN 0 - magnitude ELSE magnitude>>
        ELSE <<0>>

int(s) ==
    LET b == StripOf(s, IntSpaces)
        signed == b # << >> /\ b[1] \in {"+", "-"}
        body == IF signed THEN Tail(b) ELSE b
        magnitude == ParseInt(SelectSeq(body, LAMBDA c : c \in Digits))
    IN  IF IntDigits(body)
        THEN <<IF signed /\ b[1] = "-" THEN 0 - magnitude ELSE magnitude>>
        ELSE << >>

\* k = 3
DefaultK == 3

\* f"Invalid k value: {sys.argv[1]}. Using default k=3."
InvalidKMessage(arg) ==
    <<"I", "n", "v", "a", "l", "i", "d", " ", "k", " ", "v", "a", "l", "u", "e", ":", " ">>
        \o arg \o <<".", " ", "U", "s", "i", "n", "g", " ", "d", "e", "f", "a", "u", "l", "t", " ", "k", "=", "3", ".">>

ProgramName == <<"e", "v", "a", "l">>

\* the command lines of the model: sys.argv[0] and the arguments
Arguments ==
    { <<"2">>,
      <<"1">>,
      <<"a", "b", "c">>,
      <<"2", ".", "5">>,
      <<"0">>,
      <<"-", "1">>,
      <<" ", "3", "\n">>,
      <<"+", "2">>,
      <<"1", "_", "0">>,
      << >>,
      <<"-", " ", "1">>,
      <<"\f", "2">>,
      <<"U+001C", "2">> }

CommandLines ==
    {<<ProgramName>>}
      \cup {<<ProgramName, a>> : a \in Arguments}
      \cup {<<ProgramName, <<"2">>, <<"x">> >>}

\* the stores of the command line runs: none, an empty one, and the stored
\* chunks each at the same distance from both queries
CliCorpora ==
    {<< >>} \cup
    {c \in Corpora : c # << >> /\ \A i \in 1..Len(c) : c[i].dist["Q1"] = c[i].dist["Q2"]}

InitCli ==
    /\ chroma_db \in {[exists |-> FALSE, chunks |-> << >>]}
                       \cup {[exists |-> TRUE, chunks |-> c] : c \in CliCorpora}
    /\ existed_at_start = chroma_db.exists
    /\ vectorstore = [loaded |-> FALSE, chunks |-> << >>]
    /\ TEST_QUESTIONS \in CaseLists(MaxCases) \ {<< >>}
    /\ argv \in CommandLines
    /\ invalid_k_report = << >>
    /\ k = 0
    /\ index_fault \in FaultPoints
    /\ case_index = 1
    /\ correct_retrievals = 0
    /\ retrieval_times = << >>
    /\ retrieved_log = << >>
    /\ index_log = << >>
    /\ warnings_seen = {}
    /\ queries_issued = 0
    /\ report = << >>
    /\ error = "none"
    /\ pcEval = "main"

\* the __main__ block up to the call evaluate_recall_at_k(k)
Main ==
    /\ pcEval = "main"
    /\ IF Len(argv) > 1
       THEN IF int(argv[2]) # << >>
            THEN /\ k' = int(argv[2])[1]
                 /\ UNCHANGED invalid_k_report
            ELSE /\ k' = DefaultK
                 /\ invalid_k_report' = Append(invalid_k_report, InvalidKMessage(argv[2]))
       ELSE /\ k' = DefaultK
            /\ UNCHANGED invalid_k_report
    /\ pcEval' = "start"
    /\ UNCHANGED <<chroma_db, existed_at_start, vectorstore, TEST_QUESTIONS, argv,
                   index_fault, case_index, correct_retrievals, retrieval_times,
                   retrieved_log, index_log, warnings_seen, queries_issued, report, error,
                   procVars, cleanVars, metaVars, chatVars, mainVars>>

---------------------------------------------------------------------------
(* app.py: the functions that take the model's response apart              *)

\* a letter in lower case, as the (?i) flag compares letters
ToLower(c) ==
    CASE c = "A" -> "a" [] c = "B" -> "b" [] c = "C" -> "c" [] c = "D" -> "d"
      [] c = "E" -> "e" [] c = "F" -> "f" [] c = "G" -> "g" [] c = "H" -> "h"
      [] c = "I" -> "i" [] c = "J" -> "j" [] c = "K" -> "k" [] c = "L" -> "l"
      [] c = "M" -> "m" [] c = "N" -> "n" [] c = "O" -> "o" [] c = "P" -> "p"
      [] c = "Q" -> "q" [] c = "R" -> "r" [] c = "S" -> "s" [] c = "T" -> "t"
      [] c = "U" -> "u" [] c = "V" -> "v" [] c = "W" -> "w" [] c = "X" -> "x"
      [] c = "Y" -> "y" [] c = "Z" -> "z"
      [] OTHER -> c

\* the literal stands at offset p, letters compared without case
LiteralAtNoCase(t, p, lit) ==
    /\ p >= 0
    /\ p + Len(lit) <= Len(t)
    /\ \A j \in 1..Len(lit) : ToLower(t[p + j]) = ToLower(lit[j])

\* the least offset from a on at which the literal stands, -1 for none
FindLiteral(t, lit, a) ==
    IF \E p \in a..Len(t) : LiteralAt(t, p, lit)
    THEN Least({p \in a..Len(t) : LiteralAt(t, p, lit)})
    ELSE -1

ThinkOpen == <<"<", "t", "h", "i", "n", "k", ">">>
ThinkClose == <<"<", "/", "t", "h", "i", "n", "k", ">">>

\* <think>.*?</think> at offset p: the end of the match, -1 for none
ThinkTagsEnd(t, p) ==
    IF LiteralAt(t, p, ThinkOpen) /\ FindLiteral(t, ThinkClose, p + Len(ThinkOpen)) >= 0
    THEN FindLiteral(t, ThinkClose, p + Len(ThinkOpen)) + Len(ThinkClose)
    ELSE -1

\* (\*\*|\#\#?\s*)word at offset p, without case: the offset after the
\* word, -1 for no match
HeaderWordEnd(t, p, word) ==
    IF LiteralAt(t, p, <<"*", "*">>)
    THEN IF LiteralAtNoCase(t, p + 2, word) THEN p + 2 + Len(word) ELSE -1
    ELSE IF At(t, p) = "#"
    THEN LET w == RunEnd(t, IF At(t, p + 1) = "#" THEN p + 2 ELSE p + 1, Spaces)
         IN  IF LiteralAtNoCase(t, w, word) THEN w + Len(word) ELSE -1
    ELSE -1

\* (\*\*|\#\#?\s*)word:? at offset p: the greedy :? takes a colon that is there
HeaderEnd(t, p, word) ==
    IF HeaderWordEnd(t, p, word) < 0 THEN -1
    ELSE IF At(t, HeaderWordEnd(t, p, word)) = ":" THEN HeaderWordEnd(t, p, word) + 1
    ELSE HeaderWordEnd(t, p, word)

ThinkingWord == <<"T", "h", "i", "n", "k", "i", "n", "g">>
AnswerWord == <<"A", "n", "s", "w", "e", "r">>

\* the offsets from a on at which one of the two closing literals stands
ClosersFrom(t, a, first, second) ==
    {x \in a..Len(t) : LiteralAt(t, x, first) \/ LiteralAt(t, x, second)}

\* (\*\*|\#\#?\s*)Thinking:?.*?(\*\*|\n\n) at offset p: the end of the match
ThinkingSectionEnd(t, p) ==
    LET h == HeaderEnd(t, p, ThinkingWord)
    IN  IF h < 0 \/ ClosersFrom(t, h, <<"*", "*">>, <<"\n", "\n">>) = {} THEN -1
        ELSE Least(ClosersFrom(t, h, <<"*", "*">>, <<"\n", "\n">>)) + 2

\* (\*\*|\#\#?\s*)Answer:?(\*\*|\s*) at offset p: the end of the match
AnswerHeaderEnd(t, p) ==
    LET h == HeaderEnd(t, p, AnswerWord)
    IN  IF h < 0 THEN -1
        ELSE IF LiteralAt(t, h, <<"*", "*">>) THEN h + 2
        ELSE RunEnd(t, h, Spaces)

\* \n{3,} at offset p: the end of the run of newlines
NewlinesEnd(t, p) ==
    IF RunEnd(t, p, {"\n"}) >= p + 3 THEN RunEnd(t, p, {"\n"}) ELSE -1

PatternEnd(pattern, t, p) ==
    CASE pattern = "think tags" -> ThinkTagsEnd(t, p)
      [] pattern = "thinking section" -> ThinkingSectionEnd(t, p)
      [] pattern = "answer header" -> AnswerHeaderEnd(t, p)
      [] pattern = "newlines" -> NewlinesEnd(t, p)

\* re.sub(pattern, repl, t) from offset p on: the matches are replaced from
\* left to right, the scan resumes at the end of each
RECURSIVE SubFrom(_, _, _, _)
SubFrom(pattern, repl, t, p) ==
    IF p >= Len(t) THEN << >>
    ELSE IF PatternEnd(pattern, t, p) >= 0
         THEN repl \o SubFrom(pattern, repl, t, PatternEnd(pattern, t, p))
         ELSE <<At(t, p)>> \o SubFrom(pattern, repl, t, p + 1)

clean_response(response) ==
    Strip(SubFrom("newlines", <<"\n", "\n">>,
              SubFrom("answer header", << >>,
                  SubFrom("thinking section", << >>,
                      SubFrom("think tags", << >>, response, 0), 0), 0), 0))

\* the lookahead (?=(\*\*|\#\#?\s*)Answer:?|$) holds at offset e; $ holds at
\* the end of the text and before a newline that ends it
AnswerOrEndAt(t, e) ==
    \/ HeaderWordEnd(t, e, AnswerWord) >= 0
    \/ e = Len(t)
    \/ e = Len(t) - 1 /\ At(t, e) = "\n"

\* (\*\*|\#\#?\s*)Thinking:?.*?(\*\*|\n)(.*?)(?=...) at offset p: group 3 as
\* <<start, end>>, << >> for no match
ThinkingGroup(t, p) ==
    LET h == HeaderEnd(t, p, ThinkingWord)
        xs == ClosersFrom(t, h, <<"*", "*">>, <<"\n">>)
    IN  IF h < 0 \/ xs = {} THEN << >>
        ELSE LET a == IF At(t, Least(xs)) = "\n" THEN Least(xs) + 1 ELSE Least(xs) + 2
             IN  <<a, Least({e \in a..Len(t) : AnswerOrEndAt(t, e)})>>

extract_thinking(response) ==
    LET tags == {p \in 0..Len(response) : ThinkTagsEnd(response, p) >= 0}
        sections == {p \in 0..Len(response) : ThinkingGroup(response, p) # << >>}
    IN  IF tags # {}
        THEN Strip(Slice(response, Least(tags) + Len(ThinkOpen),
                         ThinkTagsEnd(response, Least(tags)) - Len(ThinkClose)))
        ELSE IF sections # {}
        THEN Strip(Slice(response, ThinkingGroup(response, Least(sections))[1],
                         ThinkingGroup(response, Least(sections))[2]))
        ELSE << >>

---------------------------------------------------------------------------
(* app.py: the chat front end.  Streamlit runs the script from top to      *)
(* bottom for every page load and every submitted prompt; the session      *)
(* state and the cached resource outlive the run, also a run that an       *)
(* exception ended or that Streamlit stopped at one of its st.* calls      *)
(* because the session asked for another run.                              *)

MaxRuns == 4

\* retriever.retrieve(prompt, k=3)
ChatK == 3

Greeting ==
    <<"H", "e", "l", "l", "o", "!", " ", "I", "'", "m", " ", "t", "h", "e", " ", "C",
      "e", "l", "c", "o", "m", "D", "i", "g", "i", " ", "K", "n", "o", "w", "l", "e",
      "d", "g", "e", " ", "A", "s", "s", "i", "s", "t", "a", "n", "t", ".", " ", "H",
      "o", "w", " ", "c", "a", "n", " ", "I", " ", "h", "e", "l", "p", " ", "y", "o",
      "u", " ", "t", "o", "d", "a", "y", "?">>

\* what the user can submit: the queries of the index
Prompts == Queries

\* what the language model can answer
Responses ==
    { <<"<", "t", "h", "i", "n", "k", ">", " ", "w", "h", "y", " ", "<", "/", "t", "h",
        "i", "n", "k", ">", "\n", "\n", "T", "h", "e", " ", "a", "n", "s", "w", "e", "r",
        ".">>,
      <<"*", "*", "T", "h", "i", "n", "k", "i", "n", "g", ":", "*", "*", " ", "h", "m",
        "\n", "\n", "*", "*", "A", "n", "s", "w", "e", "r", ":", "*", "*", " ", "o", "k">> }

\* how a call of llm.generate_response can end: with a response, or with
\* the exception of the model service
LlmOutcomes ==
    {[raised |-> TRUE, response |-> << >>]}
        \cup {[raised |-> FALSE, response |-> r] : r \in Responses}

\* the store of the chat runs: none, an empty one, or the stored chunks with
\* the second far from every query
ChatCorpus ==
    [i \in 1..Len(StoredChunks) |->
        [doc |-> StoredChunks[i], dist |-> [q \in Queries |-> IF i = 2 THEN 2 ELSE 0]]]

\* doc['metadata'].get(key, default)
DocMetadataGet(doc, key, default) ==
    IF key \in DOMAIN doc.metadata THEN doc.metadata[key] ELSE default

\* what the loop over retrieved_docs adds to sources_content for the i-th
\* document, counting from 0
SourceEntry(doc, i) ==
    <<"S", "o", "u", "r", "c", "e", " ">> \o Str(i + 1) \o <<":", " ">>
        \o DocMetadataGet(doc, "title", <<"U", "n", "k", "n", "o", "w", "n">>) \o <<"\n">>
        \o <<"Q", "u", "e", "s", "t", "i", "o", "n", ":", " ">>
        \o DocMetadataGet(doc, "question", <<"N", "o", "t", " ", "a", "v", "a", "i", "l", "a", "b", "l", "e">>)
        \o <<"\n">>
        \o <<"C", "o", "n", "t", "e", "n", "t", ":", " ">> \o Slice(doc.content, 0, 150)
        \o <<".", ".", ".", "\n", "\n">>

RECURSIVE SourceEntriesFrom(_, _)
SourceEntriesFrom(retrieved_docs, i) ==
    IF i >= Len(retrieved_docs) THEN << >>
    ELSE SourceEntry(retrieved_docs[i + 1], i) \o SourceEntriesFrom(retrieved_docs, i + 1)

sources_content(retrieved_docs) ==
    IF retrieved_docs # << >> THEN SourceEntriesFrom(retrieved_docs, 0)
    ELSE <<"N", "o", " ", "s", "o", "u", "r", "c", "e", "s", " ", "f", "o", "u", "n", "d">>

\* the structured response appended to the chat history
AssistantMessage(retrieved_docs, full_response) ==
    [role |-> "assistant",
     content |-> [sources |-> sources_content(retrieved_docs),
                  thinking |-> extract_thinking(full_response),
                  answer |-> clean_response(full_response),
                  full_response |-> full_response]]

InitChat ==
    /\ rag_system = "none"
    /\ messages = << >>
    /\ script_runs = 0
    /\ pcChat = "idle"
    /\ run_prompt = "none"
    /\ run_retrieved_docs = << >>
    /\ run_full_response = << >>
    /\ chroma_db \in {[exists |-> FALSE, chunks |-> << >>],
                      [exists |-> TRUE, chunks |-> << >>],
                      [exists |-> TRUE, chunks |-> ChatCorpus]}
    /\ existed_at_start = chroma_db.exists
    /\ vectorstore = [loaded |-> FALSE, chunks |-> << >>]
    /\ TEST_QUESTIONS = << >>
    /\ argv = << >>
    /\ invalid_k_report = << >>
    /\ k = 0
    /\ index_fault \in FaultPoints
    /\ case_index = 0
    /\ correct_retrievals = 0
    /\ retrieval_times = << >>
    /\ retrieved_log = << >>
    /\ index_log = << >>
    /\ warnings_seen = {}
    /\ queries_issued = 0
    /\ report = << >>
    /\ error = "none"
    /\ pcEval = "idle"

\* retriever, llm, system_loaded = load_rag_system(), line 85:
\* st.cache_resource runs the function once and answers from its cache
\* afterwards, the failure tuple included.  model_ok says whether
\* DocumentEmbedder.__init__ got its embedding model, rest_ok whether the
\* rest of load_rag_system went without an exception.
load_rag_system_call(model_ok, rest_ok) ==
    LET made == DocumentEmbedder(chroma_db, model_ok)
        load_ok == ~made.raised /\ rest_ok
    IN  /\ rag_system' = IF rag_system # "none" THEN rag_system
                         ELSE IF load_ok THEN "loaded" ELSE "failed"
        /\ chroma_db' = IF rag_system = "none" THEN made.chroma_db ELSE chroma_db
        /\ vectorstore' = IF rag_system = "none" /\ load_ok
                          THEN [loaded |-> TRUE, chunks |-> chroma_db.chunks]
                          ELSE vectorstore

\* the script from its top to the chat input, lines 81-107: the cached
\* load, st.stop() when the system is not loaded, and the greeting of a
\* session without a history (lines 92-95)
ScriptTop(model_ok, rest_ok) ==
    /\ load_rag_system_call(model_ok, rest_ok)
    /\ messages' = IF rag_system' = "loaded" /\ messages = << >>
                   THEN <<[role |-> "assistant", content |-> Greeting]>>
                   ELSE messages

\* a run without a prompt that reaches the end of the script, or the
\* st.stop() of line 89: the page is loaded or reloaded.  A run that is
\* stopped in the display of the history, lines 97-107, leaves the same.
PageRun ==
    /\ pcChat = "idle"
    /\ script_runs < MaxRuns
    /\ \E model_ok \in BOOLEAN, rest_ok \in BOOLEAN : ScriptTop(model_ok, rest_ok)
    /\ script_runs' = script_runs + 1
    /\ UNCHANGED <<pcChat, run_prompt, run_retrieved_docs, run_full_response,
                   existed_at_start, TEST_QUESTIONS, argv, invalid_k_report, k,
                   index_fault, case_index, correct_retrievals, retrieval_times,
                   retrieved_log, index_log, warnings_seen, queries_issued, report,
                   error, pcEval, procVars, cleanVars, metaVars, mainVars>>

\* a run whose load_rag_system succeeds and that Streamlit stops where the
\* spinner of st.cache_resource closes, line 85: the result is cached, the
\* directory made and the store loaded, and lines 92-95 are not reached, so
\* that the session is left without a history
StopAfterLoad ==
    /\ pcChat = "idle"
    /\ script_runs < MaxRuns
    /\ rag_system = "none"
    /\ load_rag_system_call(TRUE, TRUE)
    /\ script_runs' = script_runs + 1
    /\ UNCHANGED <<messages, pcChat, run_prompt, run_retrieved_docs,
                   run_full_response, existed_at_start, TEST_QUESTIONS, argv,
                   invalid_k_report, k, index_fault, case_index,
                   correct_retrievals, retrieval_times, retrieved_log, index_log,
                   warnings_seen, queries_issued, report, error, pcEval,
                   procVars, cleanVars, metaVars, mainVars>>

\* a run that Streamlit stops at st.set_page_config (line 12) or st.title
\* (line 82), before load_rag_system is called: only the run is counted.
\* A run for a prompt that is stopped before line 111 leaves the same.
StopAtTop ==
    /\ pcChat = "idle"
    /\ script_runs < MaxRuns
    /\ script_runs' = script_runs + 1
    /\ UNCHANGED <<rag_system, messages, pcChat, run_prompt, run_retrieved_docs,
                   run_full_response, evalVars, procVars, cleanVars, metaVars, mainVars>>

\* a run whose load_rag_system fails and that Streamlit stops at the
\* st.error of line 45, inside the except branch: the stop is no Exception
\* and leaves the function, so that nothing is cached, while the directory
\* stays made when DocumentEmbedder.__init__ got as far as os.makedirs
StopAtLoadError ==
    /\ pcChat = "idle"
    /\ script_runs < MaxRuns
    /\ rag_system = "none"
    /\ \E model_ok \in BOOLEAN :
           chroma_db' = DocumentEmbedder(chroma_db, model_ok).chroma_db
    /\ script_runs' = script_runs + 1
    /\ UNCHANGED <<rag_system, messages, pcChat, run_prompt, run_retrieved_docs,
                   run_full_response, existed_at_start, vectorstore, TEST_QUESTIONS,
                   argv, invalid_k_report, k, index_fault, case_index,
                   correct_retrievals, retrieval_times, retrieved_log, index_log,
                   warnings_seen, queries_issued, report, error, pcEval,
                   procVars, cleanVars, metaVars, mainVars>>

\* a run for a submitted prompt, up to line 111: the input box of line 109
\* exists once a run has got past lines 92-95, so the top of the script
\* finds the system cached and the history set, and the user message is
\* appended
SubmitPrompt ==
    /\ pcChat = "idle"
    /\ script_runs < MaxRuns
    /\ rag_system = "loaded"
    /\ messages # << >>
    /\ \E prompt \in Prompts :
           /\ messages' = Append(messages, [role |-> "user", content |-> prompt])
           /\ run_prompt' = prompt
    /\ script_runs' = script_runs + 1
    /\ pcChat' = "retrieve"
    /\ UNCHANGED <<rag_system, run_retrieved_docs, run_full_response,
                   evalVars, procVars, cleanVars, metaVars, mainVars>>

\* retrieved_docs = retriever.retrieve(prompt, k=3), line 121; the
\* exception of the index ends the run
ChatRetrieve ==
    /\ pcChat = "retrieve"
    /\ LET raises == IndexQueryRaises(ChatK, queries_issued + 1)
           results == IF raises THEN << >>
                      ELSE similarity_search_with_relevance_scores(
                               vectorstore, run_prompt, ChatK)
           call == retrieve_call(vectorstore, run_prompt, ChatK, raises)
       IN  /\ queries_issued' = queries_issued + call.queries
           /\ index_log' = Append(index_log, [raised |-> raises, results |-> results,
                                              warnings |-> IndexWarnings(results)])
           /\ warnings_seen' = warnings_seen \cup call.warnings
           /\ IF call.raised
              THEN /\ pcChat' = "idle"
                   /\ run_prompt' = "none"
                   /\ UNCHANGED run_retrieved_docs
              ELSE /\ pcChat' = "generate"
                   /\ run_retrieved_docs' = call.value
                   /\ UNCHANGED run_prompt
    /\ UNCHANGED <<rag_system, messages, script_runs, run_full_response,
                   chroma_db, existed_at_start, vectorstore, TEST_QUESTIONS, argv,
                   invalid_k_report, k, index_fault, case_index, correct_retrievals,
                   retrieval_times, retrieved_log, report, error, pcEval,
                   procVars, cleanVars, metaVars, mainVars>>

\* full_response = llm.generate_response(prompt, retrieved_docs), line 142;
\* the exception of the model service ends the run
ChatGenerate ==
    /\ pcChat = "generate"
    /\ \E llm_outcome \in LlmOutcomes :
           IF llm_outcome.raised
           THEN /\ pcChat' = "idle"
                /\ run_prompt' = "none"
                /\ run_retrieved_docs' = << >>
                /\ UNCHANGED run_full_response
           ELSE /\ pcChat' = "append"
                /\ run_full_response' = llm_outcome.response
                /\ UNCHANGED <<run_prompt, run_retrieved_docs>>
    /\ UNCHANGED <<rag_system, messages, script_runs,
                   evalVars, procVars, cleanVars, metaVars, mainVars>>

\* st.session_state.messages.append({"role": "assistant", ...}), line 158,
\* and the end of the script
AppendAssistant ==
    /\ pcChat = "append"
    /\ messages' = Append(messages, AssistantMessage(run_retrieved_docs, run_full_response))
    /\ pcChat' = "idle"
    /\ run_prompt' = "none"
    /\ run_retrieved_docs' = << >>
    /\ run_full_response' = << >>
    /\ UNCHANGED <<rag_system, script_runs,
                   evalVars, procVars, cleanVars, metaVars, mainVars>>

\* Streamlit stops the running script at an st.* call when the session asks
\* for another run: at lines 114-120 before the retrieval, at lines 123-139
\* before the generation, at lines 149-155 before the assistant message is
\* appended.  What the run wrote to the session state stays.
StopRun ==
    /\ pcChat \in {"retrieve", "generate", "append"}
    /\ pcChat' = "idle"
    /\ run_prompt' = "none"
    /\ run_retrieved_docs' = << >>
    /\ run_full_response' = << >>
    /\ UNCHANGED <<rag_system, messages, script_runs,
                   evalVars, procVars, cleanVars, metaVars, mainVars>>

---------------------------------------------------------------------------
(* DocumentEmbedder.create_vector_store.  A metadata value is kept with    *)
(* its Python type: [str |-> text], [int |-> n], [none |-> TRUE] for None, *)
(* [list |-> values].                                                      *)

\* the values of a chunk's metadata with their types: the processor writes
\* an int under question_number and strings under its other keys
PyValues(metadata) ==
    [key \in DOMAIN metadata |->
        IF key = "question_number" THEN [int |-> metadata[key]]
        ELSE [str |-> metadata[key]]]

\* the values without their types, once none of them is None or a list
PlainValues(metadata) ==
    [key \in DOMAIN metadata |->
        IF "int" \in DOMAIN metadata[key] THEN metadata[key].int
        ELSE metadata[key].str]

\* how repr() writes a character of a string that it quotes with q
ReprChar(c, q) ==
    CASE c = "\\" -> <<"\\", "\\">>
      [] c = q -> <<"\\", q>>
      [] c = "\n" -> <<"\\", "n">>
      [] c = "\t" -> <<"\\", "t">>
      [] c = "\r" -> <<"\\", "r">>
      [] c = "U+000B" -> <<"\\", "x", "0", "b">>
      [] c = "\f" -> <<"\\", "x", "0", "c">>
      [] c = "U+001C" -> <<"\\", "x", "1", "c">>
      [] c = "U+001D" -> <<"\\", "x", "1", "d">>
      [] c = "U+001E" -> <<"\\", "x", "1", "e">>
      [] c = "U+001F" -> <<"\\", "x", "1", "f">>
      [] c = "U+0085" -> <<"\\", "x", "8", "5">>
      [] c = "U+00A0" -> <<"\\", "x", "a", "0">>
      [] c = "U+1680" -> <<"\\", "u", "1", "6", "8", "0">>
      [] c = "U+2000" -> <<"\\", "u", "2", "0", "0", "0">>
      [] c = "U+2001" -> <<"\\", "u", "2", "0", "0", "1">>
      [] c = "U+2002" -> <<"\\", "u", "2", "0", "0", "2">>
      [] c = "U+2003" -> <<"\\", "u", "2", "0", "0", "3">>
      [] c = "U+2004" -> <<"\\", "u", "2", "0", "0", "4">>
      [] c = "U+2005" -> <<"\\", "u", "2", "0", "0", "5">>
      [] c = "U+2006" -> <<"\\", "u", "2", "0", "0", "6">>
      [] c = "U+2007" -> <<"\\", "u", "2", "0", "0", "7">>
      [] c = "U+2008" -> <<"\\", "u", "2", "0", "0", "8">>
      [] c = "U+2009" -> <<"\\", "u", "2", "0", "0", "9">>
      [] c = "U+200A" -> <<"\\", "u", "2", "0", "0", "a">>
      [] c = "U+2028" -> <<"\\", "u", "2", "0", "2", "8">>
      [] c = "U+2029" -> <<"\\", "u", "2", "0", "2", "9">>
      [] c = "U+202F" -> <<"\\", "u", "2", "0", "2", "f">>
      [] c = "U+205F" -> <<"\\", "u", "2", "0", "5", "f">>
      [] c = "U+3000" -> <<"\\", "u", "3", "0", "0", "0">>
      [] OTHER -> <<c>>

RECURSIVE ReprChars(_, _)
ReprChars(t, q) ==
    IF t = << >> THEN << >> ELSE ReprChar(Head(t), q) \o ReprChars(Tail(t), q)

\* repr() of a string: in single quotes, in double quotes when it holds a
\* single quote and no double quote
ReprStr(t) ==
    LET q == IF (\E j \in 1..Len(t) : t[j] = "'") /\ (\A j \in 1..Len(t) : t[j] # "\"")
             THEN "\"" ELSE "'"
    IN  <<q>> \o ReprChars(t, q) \o <<q>>

\* str() of an int
StrInt(n) == IF n < 0 THEN <<"-">> \o Str(0 - n) ELSE Str(n)

\* repr() of a value, and of the values of a list from the i-th on
RECURSIVE PyRepr(_)
RECURSIVE ReprItems(_, _)
PyRepr(v) ==
    IF "none" \in DOMAIN v THEN <<"N", "o", "n", "e">>
    ELSE IF "int" \in DOMAIN v THEN StrInt(v.int)
    ELSE IF "str" \in DOMAIN v THEN ReprStr(v.str)
    ELSE <<"[">> \o ReprItems(v.list, 1) \o <<"]">>

ReprItems(values, i) ==
    IF i > Len(values) THEN << >>
    ELSE (IF i > 1 THEN <<",", " ">> ELSE << >>)
             \o PyRepr(values[i]) \o ReprItems(values, i + 1)

\* the loop body of lines 73-78 for one value: None becomes "", a list
\* becomes str(list)
NormaliseValue(v) ==
    IF "none" \in DOMAIN v THEN [str |-> << >>]
    ELSE IF "list" \in DOMAIN v THEN [str |-> PyRepr(v)]
    ELSE v

\* the loop of lines 71-78 over the documents, which changes them in place
NormaliseDocuments(docs) ==
    [i \in 1..Len(docs) |->
        [page_content |-> docs[i].page_content,
         metadata |-> [key \in DOMAIN docs[i].metadata |->
                          NormaliseValue(docs[i].metadata[key])]]]

\* the embeddings of n documents, as the distances they give to the
\* queries: documents with the same text have the same embedding
Embeddings(docs) ==
    {f \in [1..Len(docs) -> [Queries -> Dists]] :
        \A i \in 1..Len(docs) : \A j \in 1..Len(docs) :
            docs[i].page_content = docs[j].page_content => f[i] = f[j]}

\* create_vector_store(documents) on the persist directory db:
\* Chroma.from_documents opens the collection of the directory, making it
\* when it is missing, and adds the documents to what it holds.  The
\* result has the documents as the method left them, and the directory.
create_vector_store(db, docs, dists) ==
    LET normalised == NormaliseDocuments(docs)
    IN  [documents |-> normalised,
         chroma_db |->
             [exists |-> TRUE,
              chunks |-> db.chunks \o
                  [i \in 1..Len(normalised) |->
                      [doc |-> [page_content |-> normalised[i].page_content,
                                metadata |-> PlainValues(normalised[i].metadata)],
                       dist |-> dists[i]]]]]

---------------------------------------------------------------------------
(* main.py: main(), the command-line assistant                             *)

\* the most chunks a run of main() stores
MaxStored == 3

\* the most questions a run of main() is asked
MaxAsks == 2

\* retriever.retrieve(query, k=4)
MainK == 4

\* what input() can return: a query of the index, or exit
MainInputs == Queries \cup {"exit"}

\* the PDFs of the runs of main()
MainPdfLists ==
    {pdfs \in {<< >>}
            \cup {<<[source |-> SourceA, text |-> t]>> : t \in PairTexts}
            \cup {<<[source |-> SourceA, text |-> t], [source |-> SourceB, text |-> u]>> :
                     t \in PairTexts, u \in PairTexts} :
        Len(chunk_documents(load_documents(pdfs))) <= MaxStored}

IdleStore ==
    /\ existed_at_start = chroma_db.exists
    /\ vectorstore = [loaded |-> FALSE, chunks |-> << >>]
    /\ TEST_QUESTIONS = << >>
    /\ argv = << >>
    /\ invalid_k_report = << >>
    /\ k = 0
    /\ case_index = 0
    /\ correct_retrievals = 0
    /\ retrieval_times = << >>
    /\ retrieved_log = << >>
    /\ index_log = << >>
    /\ warnings_seen = {}
    /\ queries_issued = 0
    /\ report = << >>
    /\ error = "none"
    /\ pcEval = "idle"

InitMain ==
    /\ pcMain = "start"
    /\ pdf_files \in MainPdfLists
    /\ documents = << >>
    /\ all_chunks = << >>
    /\ document_chunks_txt = << >>
    /\ pcProcess = "idle"
    /\ chroma_db \in {[exists |-> FALSE, chunks |-> << >>],
                      [exists |-> TRUE, chunks |-> ChatCorpus]}
    /\ index_fault \in FaultPoints
    /\ IdleStore

\* embedder = DocumentEmbedder(persist_directory="chroma_db"), line 37
MainEmbedderInit ==
    /\ pcMain = "start"
    /\ \E model_ok \in BOOLEAN :
           LET made == DocumentEmbedder(chroma_db, model_ok)
           IN  /\ chroma_db' = made.chroma_db
               /\ IF made.raised
                  THEN /\ error' = "embedding model exception"
                       /\ pcMain' = "failed"
                  ELSE /\ pcMain' = "rebuild"
                       /\ UNCHANGED error
    /\ UNCHANGED <<existed_at_start, vectorstore, TEST_QUESTIONS, argv, invalid_k_report,
                   k, index_fault, case_index, correct_retrievals, retrieval_times,
                   retrieved_log, index_log, warnings_seen, queries_issued, report,
                   pcEval, procVars, cleanVars, metaVars, chatVars>>

\* if os.path.exists("chroma_db"): shutil.rmtree("chroma_db"), lines 40-41;
\* the documents are processed next
RemoveStore ==
    /\ pcMain = "rebuild"
    /\ chroma_db' = IF chroma_db.exists THEN [exists |-> FALSE, chunks |-> << >>]
                    ELSE chroma_db
    /\ pcMain' = "process"
    /\ pcProcess' = "load"
    /\ UNCHANGED <<pdf_files, documents, all_chunks, document_chunks_txt,
                   existed_at_start, vectorstore, TEST_QUESTIONS, argv, invalid_k_report,
                   k, index_fault, case_index, correct_retrievals, retrieval_times,
                   retrieved_log, index_log, warnings_seen, queries_issued, report,
                   error, pcEval, cleanVars, metaVars, chatVars>>

\* vectorstore = embedder.create_vector_store(chunks), line 49; store_ok
\* says whether Chroma.from_documents returned
CreateVectorStore ==
    /\ pcMain = "process"
    /\ pcProcess = "done"
    /\ LET docs == [i \in 1..Len(all_chunks) |->
                       [page_content |-> all_chunks[i].page_content,
                        metadata |-> PyValues(all_chunks[i].metadata)]]
       IN  \E store_ok \in BOOLEAN, dists \in Embeddings(docs) :
               LET made == create_vector_store(chroma_db, docs, dists)
               IN  /\ all_chunks' =
                          [i \in 1..Len(all_chunks) |->
                              [all_chunks[i] EXCEPT
                                  !.metadata = PlainValues(made.documents[i].metadata)]]
                   /\ IF store_ok
                      THEN /\ chroma_db' = made.chroma_db
                           /\ vectorstore' = [loaded |-> TRUE, chunks |-> made.chroma_db.chunks]
                           /\ pcMain' = "ready"
                           /\ UNCHANGED error
                      ELSE /\ error' = "index exception"
                           /\ pcMain' = "failed"
                           /\ UNCHANGED <<chroma_db, vectorstore>>
    /\ UNCHANGED <<pdf_files, documents, document_chunks_txt, pcProcess,
                   existed_at_start, TEST_QUESTIONS, argv, invalid_k_report,
                   k, index_fault, case_index, correct_retrievals, retrieval_times,
                   retrieved_log, index_log, warnings_seen, queries_issued, report,
                   pcEval, cleanVars, metaVars, chatVars>>

\* one iteration of the question loop, lines 58-68: exit ends it, another
\* input is retrieved for and answered; nothing catches the exception of
\* the index or of the model service
Ask ==
    /\ pcMain = "ready"
    /\ queries_issued < MaxAsks
    /\ \E query \in MainInputs, llm_outcome \in LlmOutcomes :
           IF query = "exit"
           THEN /\ pcMain' = "done"
                /\ UNCHANGED <<queries_issued, index_log, warnings_seen, retrieved_log, error>>
           ELSE LET raises == IndexQueryRaises(MainK, queries_issued + 1)
                    results == IF raises THEN << >>
                               ELSE similarity_search_with_relevance_scores(
                                        vectorstore, query, MainK)
                    call == retrieve_call(vectorstore, query, MainK, raises)
                IN  /\ queries_issued' = queries_issued + call.queries
                    /\ index_log' = Append(index_log,
                                           [raised |-> raises, results |-> results,
                                            warnings |-> IndexWarnings(results)])
                    /\ warnings_seen' = warnings_seen \cup call.warnings
                    /\ IF call.raised
                       THEN /\ error' = "index exception"
                            /\ pcMain' = "failed"
                            /\ UNCHANGED retrieved_log
                       ELSE /\ retrieved_log' = Append(retrieved_log, call.value)
                            /\ IF llm_outcome.raised
                               THEN /\ error' = "model service exception"
                                    /\ pcMain' = "failed"
                               ELSE UNCHANGED <<error, pcMain>>
    /\ UNCHANGED <<chroma_db, existed_at_start, vectorstore, TEST_QUESTIONS, argv,
                   invalid_k_report, k, index_fault, case_index, correct_retrievals,
                   retrieval_times, report, pcEval,
                   procVars, cleanVars, metaVars, chatVars>>

---------------------------------------------------------------------------
(* The specifications                                                      *)

\* document processing: process_documents over a list of PDFs
InitP == InitProcess /\ IdleClean /\ IdleMeta /\ IdleEval /\ IdleChat /\ IdleMain
NextP == LoadDocuments \/ ChunkDocuments \/ SaveChunks
SpecProcess == InitP /\ [][NextP]_vars

\* text normalisation: clean_text, and clean_text of its result
InitC == InitClean /\ IdleProcess /\ IdleMeta /\ IdleEval /\ IdleChat /\ IdleMain
NextC == CleanText
SpecClean == InitC /\ [][NextC]_vars

\* an evaluation run: evaluate_recall_at_k(k)
InitE == InitEval /\ IdleProcess /\ IdleClean /\ IdleMeta /\ IdleChat /\ IdleMain
NextE == EmbedderInit \/ LoadVectorStore \/ EvaluateCase \/ ReturnReport
SpecEval == InitE /\ [][NextE]_vars

\* metadata extraction: extract_metadata of a document
InitM == InitMeta /\ IdleProcess /\ IdleClean /\ IdleEval /\ IdleChat /\ IdleMain
NextM == ExtractMetadata
SpecMeta == InitM /\ [][NextM]_vars

\* the evaluation run from the command line
InitCL == InitCli /\ IdleProcess /\ IdleClean /\ IdleMeta /\ IdleChat /\ IdleMain
NextCL == Main \/ EmbedderInit \/ LoadVectorStore \/ EvaluateCase \/ ReturnReport
SpecCli == InitCL /\ [][NextCL]_vars

\* the chat front end: script runs of one session
InitCH == InitChat /\ IdleProcess /\ IdleClean /\ IdleMeta /\ IdleMain
NextCH ==
    PageRun \/ StopAtTop \/ StopAtLoadError \/ StopAfterLoad \/ SubmitPrompt \/ ChatRetrieve \/ ChatGenerate \/ AppendAssistant \/ StopRun
SpecChat == InitCH /\ [][NextCH]_vars

\* the command-line assistant: main() from its start to the end of its
\* question loop
InitMN == InitMain /\ IdleClean /\ IdleMeta /\ IdleChat
NextMN ==
    MainEmbedderInit \/ RemoveStore \/ LoadDocuments \/ ChunkDocuments \/ SaveChunks
        \/ CreateVectorStore \/ Ask
SpecMain == InitMN /\ [][NextMN]_vars

---------------------------------------------------------------------------
(* Document processing: the claims                                         *)

\* the chunks chunk_documents emitted for document d, in emission order
ChunksOfDoc(d) == SelectSeq(all_chunks, LAMBDA c : c.doc = d)

\* the offsets of the raw span text[pos:end_pos] of a chunk
SpanOffsets(c) == {x \in 0..(c.end_pos - 1) : c.pos <= x}

\* the number of chunks of cs whose raw span holds offset x
SpansHolding(cs, x) == Cardinality({i \in 1..Len(cs) : x \in SpanOffsets(cs[i])})

\* the question numbers of the matches ms of text t, in text order
MarkerNumbers(t, ms) == [i \in 1..Len(ms) |-> QuestionNumber(t, ms[i])]

StrictlyAscending(nums) == \A i \in 1..(Len(nums) - 1) : nums[i] < nums[i + 1]

NonDecreasing(nums) == \A i \in 1..(Len(nums) - 1) : nums[i] <= nums[i + 1]

HasQuestion(c) == "question" \in DOMAIN c.metadata

HasQuestionNumber(c) == "question_number" \in DOMAIN c.metadata

\* C1: a document whose text has N >= 1 question markers (matches of
\* question_pattern) with question numbers strictly ascending in text order
\* yields exactly N chunks, the i-th anchored at and numbered as the i-th
\* marker, and every offset from the first marker to the end of the text
\* lies in exactly one chunk's raw span, every offset before it in none.
C1_AscendingMarkersPartition ==
    pcProcess = "done" =>
        \A d \in 1..Len(documents) :
            LET t == documents[d].page_content
                ms == FindIter("question_pattern", t)
                cs == ChunksOfDoc(d)
            IN  (ms # << >> /\ StrictlyAscending(MarkerNumbers(t, ms))) =>
                    /\ Len(cs) = Len(ms)
                    /\ \A i \in 1..Len(ms) :
                           /\ HasQuestion(cs[i])
                           /\ HasQuestionNumber(cs[i])
                           /\ cs[i].metadata.question_number = QuestionNumber(t, ms[i])
                           /\ cs[i].pos = ms[i].start
                    /\ \A x \in 0..(Len(t) - 1) :
                           SpansHolding(cs, x) = IF x >= ms[1].start THEN 1 ELSE 0

\* C1 witness: a processed document with text before its first marker and
\* three ascending markers
C1_Witness ==
    /\ pcProcess = "done"
    /\ \E d \in 1..Len(documents) :
           LET t == documents[d].page_content
               ms == FindIter("question_pattern", t)
           IN  /\ Len(ms) = 3
               /\ ms[1].start > 0
               /\ StrictlyAscending(MarkerNumbers(t, ms))
               /\ Len(ChunksOfDoc(d)) = 3

\* the raw spans of the chunks of a document cover the text from the first
\* boundary to its end
SpansCover(t, cs) ==
    \A x \in Matches(t)[1].start..(Len(t) - 1) : SpansHolding(cs, x) >= 1

\* the raw spans of the chunks of a document do not overlap
SpansDisjoint(t, cs) == \A x \in 0..(Len(t) - 1) : SpansHolding(cs, x) <= 1

\* C2 as stated: in question-anchored mode, whatever the boundary list, the
\* raw spans of a document's chunks are pairwise non-overlapping and
\* jointly cover the text from the first boundary to the end.
C2_SpansPartitionAnyOrder ==
    pcProcess = "done" =>
        \A d \in 1..Len(documents) :
            Matches(documents[d].page_content) # << >> =>
                /\ SpansDisjoint(documents[d].page_content, ChunksOfDoc(d))
                /\ SpansCover(documents[d].page_content, ChunksOfDoc(d))

\* C2 amended: in question-anchored mode the raw spans of a document's
\* chunks always jointly cover the text from the first boundary to the end,
\* and they are pairwise non-overlapping when the question numbers are
\* non-decreasing in text order (duplicates included).
C2_SpansCoverAndDisjointInOrder ==
    pcProcess = "done" =>
        \A d \in 1..Len(documents) :
            LET t == documents[d].page_content
            IN  Matches(t) # << >> =>
                    /\ SpansCover(t, ChunksOfDoc(d))
                    /\ NonDecreasing(MarkerNumbers(t, Matches(t)))
                           => SpansDisjoint(t, ChunksOfDoc(d))

\* C2 witness: a processed document in question-anchored mode whose three
\* question numbers repeat without falling, and its three chunks
C2_Witness ==
    /\ pcProcess = "done"
    /\ \E d \in 1..Len(documents) :
           LET t == documents[d].page_content
               nums == MarkerNumbers(t, Matches(t))
           IN  /\ Len(nums) = 3
               /\ NonDecreasing(nums)
               /\ ~StrictlyAscending(nums)
               /\ Len(ChunksOfDoc(d)) = 3

\* a chunk anchored at one of the matches ms, carrying that match's question
AnchoredAt(t, ms, c) ==
    \E i \in 1..Len(ms) :
        /\ c.pos = ms[i].start
        /\ c.metadata.question = QuestionText(Slice(t, ms[i].group1, ms[i].end))
        /\ c.metadata.question_number = QuestionNumber(t, ms[i])

\* C3: per document one segmentation mode, chosen in a fixed order: when
\* question_pattern matches, every chunk is anchored at a question_pattern
\* match; simple_pattern anchors the chunks only when question_pattern finds
\* nothing; the windows of the splitter are used only when both find
\* nothing.  So all chunks of a document carry question and
\* question_number, or none carries either.
C3_OneModePerDocument ==
    pcProcess = "done" =>
        \A d \in 1..Len(documents) :
            LET t == documents[d].page_content
                strict == FindIter("question_pattern", t)
                loose == FindIter("simple_pattern", t)
                cs == ChunksOfDoc(d)
            IN  /\ \/ \A i \in 1..Len(cs) : HasQuestion(cs[i]) /\ HasQuestionNumber(cs[i])
                   \/ \A i \in 1..Len(cs) : ~HasQuestion(cs[i]) /\ ~HasQuestionNumber(cs[i])
                /\ strict # << >> =>
                       \A i \in 1..Len(cs) : HasQuestion(cs[i]) /\ AnchoredAt(t, strict, cs[i])
                /\ (strict = << >> /\ loose # << >>) =>
                       \A i \in 1..Len(cs) : HasQuestion(cs[i]) /\ AnchoredAt(t, loose, cs[i])
                /\ (strict = << >> /\ loose = << >>) =>
                       /\ Len(cs) = Len(split_text(t))
                       /\ \A i \in 1..Len(cs) : ~HasQuestion(cs[i]) /\ ~HasQuestionNumber(cs[i])

\* C3 witness: a run over two documents, the first segmented at
\* simple_pattern matches only, the second by the splitter
C3_Witness ==
    /\ pcProcess = "done"
    /\ Len(documents) = 2
    /\ FindIter("question_pattern", documents[1].page_content) = << >>
    /\ FindIter("simple_pattern", documents[1].page_content) # << >>
    /\ ChunksOfDoc(1) # << >>
    /\ Matches(documents[2].page_content) = << >>
    /\ ChunksOfDoc(2) # << >>

\* C4: no chunk returned by chunk_documents has empty content.
C4_NoEmptyChunk ==
    pcProcess = "done" =>
        \A i \in 1..Len(all_chunks) : all_chunks[i].page_content # << >>

\* C5: clean_text is idempotent: cleaning a cleaned text changes nothing.
C5_CleanTextIdempotent ==
    Len(cleaned) >= 2 => cleaned[2] = cleaned[1]

---------------------------------------------------------------------------
(* Retrieval and evaluation: the claims                                    *)

\* C6: every list retrieve returned has at most k results, in order of
\* non-increasing relevance_score.
C6_AtMostKSortedByScore ==
    \A i \in 1..Len(retrieved_log) :
        /\ Len(retrieved_log[i]) <= k
        /\ \A j \in 1..(Len(retrieved_log[i]) - 1) :
               retrieved_log[i][j].relevance_score
                   >= retrieved_log[i][j + 1].relevance_score

\* C6 witness: a retrieval that was cut to k results of falling score from
\* a store holding more
C6_Witness ==
    \E i \in 1..Len(retrieved_log) :
        /\ Len(retrieved_log[i]) = k
        /\ k >= 2
        /\ Len(vectorstore.chunks) > k
        /\ retrieved_log[i][1].relevance_score > retrieved_log[i][2].relevance_score

\* C7: when the persist directory did not exist before the run and the
\* embedder was constructed, the run ends in load_vector_store's
\* ValueError, before any query is sent to the index.
C7_MissingStoreFailsBeforeRetrieval ==
    (/\ ~existed_at_start
     /\ pcEval \notin {"idle", "start", "load"}
     /\ error # "embedding model exception") =>
        /\ pcEval = "failed"
        /\ error = "ValueError"
        /\ queries_issued = 0

\* the test cases so far whose source_document is the source of a result
\* that retrieve returned for them
CorrectCases ==
    {i \in 1..Len(retrieved_log) :
        \E j \in 1..Len(retrieved_log[i]) :
            retrieved_log[i][j].metadata.source = TEST_QUESTIONS[i].source_document}

\* C8: a test case counts as correct iff its source_document is the source
\* of a result retrieve returned for its question; the reported recall_at_k
\* is (correct cases) / (all cases), 0 for a single case never retrieved.
C8_RecallIsCorrectOverTotal ==
    /\ correct_retrievals = Cardinality(CorrectCases)
    /\ \A i \in 1..Len(retrieved_log) :
           retrieved_log[i] = retrieve(vectorstore, TEST_QUESTIONS[i].question, k)
    /\ pcEval = "done" =>
           /\ Len(retrieved_log) = Len(TEST_QUESTIONS)
           /\ report.recall_at_k = Divide(Cardinality(CorrectCases), Len(TEST_QUESTIONS))
           /\ (Len(TEST_QUESTIONS) = 1 /\ CorrectCases = {}) => report.recall_at_k = <<0, 1>>

\* C8 witness: a finished run of two cases, one missed, one whose source was
\* retrieved second
C8_Witness ==
    /\ pcEval = "done"
    /\ Len(TEST_QUESTIONS) = 2
    /\ report.recall_at_k = <<1, 2>>
    /\ \E i \in CorrectCases :
           /\ retrieved_log[i][1].metadata.source # TEST_QUESTIONS[i].source_document
           /\ retrieved_log[i][2].metadata.source = TEST_QUESTIONS[i].source_document

\* str.lower() on the letters of the model
LowerChar(c) ==
    CASE c = "A" -> "a" [] c = "B" -> "b" [] c = "C" -> "c" [] c = "D" -> "d"
      [] OTHER -> c

LowerText(t) == [j \in 1..Len(t) |-> LowerChar(t[j])]

\* a in b, for strings
IsSubstring(a, b) ==
    \E p \in 0..(Len(b) - Len(a)) : SubSeq(b, p + 1, p + Len(a)) = a

HasExpectedAnswer(c) == "expected_answer" \in DOMAIN c

\* the cases whose expected answer is, case-insensitively, a substring of
\* the content of a retrieved chunk
MatchedCases ==
    {i \in 1..Len(retrieved_log) :
        /\ HasExpectedAnswer(TEST_QUESTIONS[i])
        /\ \E j \in 1..Len(retrieved_log[i]) :
               IsSubstring(LowerText(TEST_QUESTIONS[i].expected_answer),
                           LowerText(retrieved_log[i][j].content))}

\* C9: when a test case supplies an expected_answer, the report has
\* answer_in_context_rate = (matched cases) / (all cases); the field is
\* left out only when no case supplies one.
C9_AnswerInContextRateReported ==
    pcEval = "done" =>
        IF \E i \in 1..Len(TEST_QUESTIONS) : HasExpectedAnswer(TEST_QUESTIONS[i])
        THEN /\ "answer_in_context_rate" \in DOMAIN report
             /\ report.answer_in_context_rate
                    = Divide(Cardinality(MatchedCases), Len(TEST_QUESTIONS))
        ELSE "answer_in_context_rate" \notin DOMAIN report

\* the number of correct cases of a run of the same test set on the same
\* store with kk in place of k
CorrectAt(kk) ==
    Cardinality({i \in 1..Len(TEST_QUESTIONS) :
        CorrectRetrieval(TEST_QUESTIONS[i].source_document,
                         SourcesOf(retrieve(vectorstore, TEST_QUESTIONS[i].question, kk)))})

\* C10: on a fixed store and test set recall_at_k does not fall as k grows
\* (the total is the same, so the correct counts are compared): the run's
\* count is the count at its k, and the counts are non-decreasing in k.
C10_RecallMonotoneInK ==
    pcEval = "done" =>
        /\ correct_retrievals = CorrectAt(k)
        /\ \A k1 \in 1..(MaxK + 1) : \A k2 \in k1..(MaxK + 1) :
               CorrectAt(k1) <= CorrectAt(k2)

\* C10 witness: a finished run with k = 1 that a larger k would have
\* scored higher
C10_Witness ==
    /\ pcEval = "done"
    /\ k = 1
    /\ correct_retrievals < CorrectAt(2)

---------------------------------------------------------------------------
(* The command line, failures of the index, and the shape of the results:  *)
(* the claims                                                              *)

\* an argument that is no integer literal: it holds no digit, or a
\* character that is neither a digit, a sign nor an underscore
NonIntegerArgument(arg) ==
    \/ \A j \in 1..Len(Strip(arg)) : Strip(arg)[j] \notin Digits
    \/ \E j \in 1..Len(Strip(arg)) : Strip(arg)[j] \notin Digits \cup {"+", "-", "_"}

\* C11: from the command line, a k argument that is no integer does not end
\* the run with int's ValueError: one line reports the value, k is 3 and
\* every query of the evaluation asks for 3 results; without an argument
\* nothing is reported and the evaluation also runs with k = 3.
C11_InvalidKFallsBackToDefault ==
    (pcEval # "main" /\ (Len(argv) = 1 \/ NonIntegerArgument(argv[2]))) =>
        /\ k = 3
        /\ error # "ValueError"
        /\ IF Len(argv) = 1 THEN invalid_k_report = << >>
           ELSE /\ Len(invalid_k_report) = 1
                /\ IsSubstring(argv[2], invalid_k_report[1])
        /\ \A i \in 1..Len(retrieved_log) :
               retrieved_log[i] = retrieve(vectorstore, TEST_QUESTIONS[i].question, 3)
        /\ pcEval = "done" => Len(retrieved_log) = Len(TEST_QUESTIONS)

\* C11 witness: a run started with a non-integer argument that returned its
\* report after retrieving three results for a case
C11_Witness ==
    /\ pcEval = "done"
    /\ Len(argv) > 1
    /\ NonIntegerArgument(argv[2])
    /\ argv[2] # << >>
    /\ invalid_k_report # << >>
    /\ report # << >>
    /\ \E i \in 1..Len(retrieved_log) : Len(retrieved_log[i]) = 3

\* C12: no retry and no masking: every retrieve call sends exactly one
\* query to the index, every test case reached makes exactly one retrieve
\* call, and when a query raises it is the last one: the run has ended with
\* the exception of the index and without a report.
C12_OneQueryPerCaseFailuresPropagate ==
    /\ queries_issued = Len(index_log)
    /\ Len(index_log) = Len(retrieved_log)
                            + (IF error = "index exception" THEN 1 ELSE 0)
    /\ pcEval = "loop" => Len(retrieved_log) = case_index - 1
    /\ pcEval = "done" => queries_issued = Len(TEST_QUESTIONS)
    /\ \A i \in 1..Len(index_log) :
           index_log[i].raised =>
               /\ i = Len(index_log)
               /\ pcEval = "failed"
               /\ error = "index exception"
               /\ report = << >>
    /\ error = "index exception" => index_log[Len(index_log)].raised

\* C12 witness: a run of two cases whose second query found the index down,
\* after a first query that was answered
C12_Witness ==
    /\ pcEval = "failed"
    /\ Len(TEST_QUESTIONS) = 2
    /\ Len(index_log) = 2
    /\ ~index_log[1].raised
    /\ index_log[2].raised
    /\ Len(retrieved_log) = 1
    /\ queries_issued = 2

\* C17: retrieve only reshapes the answer of the index: the returned list
\* is as long as the answer, its j-th result has the content, the metadata
\* and the score of the j-th triple, and no warning of the index reaches
\* the caller, whether the index emitted one or not.
C17_RetrieveOnlyReshapes ==
    /\ warnings_seen = {}
    /\ \A i \in 1..Len(retrieved_log) :
           /\ ~index_log[i].raised
           /\ Len(retrieved_log[i]) = Len(index_log[i].results)
           /\ \A j \in 1..Len(retrieved_log[i]) :
                  /\ retrieved_log[i][j].content = index_log[i].results[j][1].page_content
                  /\ retrieved_log[i][j].metadata = index_log[i].results[j][1].metadata
                  /\ retrieved_log[i][j].relevance_score = index_log[i].results[j][2]

\* C17 witness: a retrieval of two results of different content during
\* which the index warned about a score below 0
C17_Witness ==
    \E i \in 1..Len(retrieved_log) :
        /\ index_log[i].warnings # {}
        /\ Len(retrieved_log[i]) = 2
        /\ retrieved_log[i][1].content # retrieved_log[i][2].content
        /\ retrieved_log[i][2].relevance_score < 0

\* C19: whatever the command line, the k given to evaluate_recall_at_k, and
\* by it to every retrieve call, is a positive integer.
C19_KPassedIsPositive ==
    pcEval # "main" => k >= 1

---------------------------------------------------------------------------
(* Metadata extraction: the claims                                         *)

BrandPrefix == <<"C", "e", "l", "c", "o", "m", "D", "i", "g", "i">>

\* a terminator word stands at offset x
TerminatorWordAt(t, x) == \E i \in 1..Len(TitleWords) : LiteralAt(t, x, TitleWords[i])

\* the offsets at which a terminator word starts after the brand prefix that
\* stands at offset p, on the same line
TerminatorsAfter(t, p) ==
    {x \in (p + Len(BrandPrefix))..Len(t) :
        /\ TerminatorWordAt(t, x)
        /\ \A y \in (p + Len(BrandPrefix))..(x - 1) : At(t, y) # "\n"}

\* the offsets at which rule 1 can match: a brand prefix with a terminator
\* word after it
BrandStarts(t) ==
    {p \in 0..Len(t) : LiteralAt(t, p, BrandPrefix) /\ TerminatorsAfter(t, p) # {}}

\* the text from offset p up to the end of the first terminator word after it
ShortestRule1Match(t, p) ==
    LET x == Least(TerminatorsAfter(t, p))
        i == CHOOSE j \in 1..Len(TitleWords) : LiteralAt(t, x, TitleWords[j])
    IN  Slice(t, p, x + Len(TitleWords[i]))

\* C13: the title is decided by the first rule that matches: where rule 1
\* matches, the title is its leftmost match, cut at the first terminator
\* word after the brand prefix, whether rule 2 matches or not; else where
\* rule 2 matches, the title is its leftmost match; else it is the source.
\* 'CelcomDigi Raya Offer extra text' has the title 'CelcomDigi Raya Offer'.
C13_TitleFirstRuleWins ==
    meta_result # << >> =>
        LET t == meta_document.page_content
        IN  /\ BrandStarts(t) # {} =>
                   meta_result.title = ShortestRule1Match(t, Least(BrandStarts(t)))
            /\ (BrandStarts(t) = {} /\ TitleRule2Starts(t) # {}) =>
                   meta_result.title = Slice(t, Least(TitleRule2Starts(t)),
                                             TitleRule2End(t, Least(TitleRule2Starts(t))))
            /\ (BrandStarts(t) = {} /\ TitleRule2Starts(t) = {}) =>
                   meta_result.title = meta_document.metadata.source
            /\ t = 
                   <<"C", "e", "l", "c", "o", "m", "D", "i", "g", "i", " ", "R", "a", "y", "a", " ", "O", "f", "f", "e", "r", " ", "e", "x", "t", "r", "a", " ", "t", "e", "x", "t">>
                   => meta_result.title = 
                   <<"C", "e", "l", "c", "o", "m", "D", "i", "g", "i", " ", "R", "a", "y", "a", " ", "O", "f", "f", "e", "r">>

\* C13 witness: the metadata of a text in which a campaign phrase of rule 2
\* stands before the brand-prefixed phrase, and the title is the latter
C13_Witness ==
    /\ meta_result # << >>
    /\ TitleRule2Starts(meta_document.page_content) # {}
    /\ BrandStarts(meta_document.page_content) # {}
    /\ Least(TitleRule2Starts(meta_document.page_content))
           < Least(BrandStarts(meta_document.page_content))
    /\ meta_result.title = 
                   <<"C", "e", "l", "c", "o", "m", "D", "i", "g", "i", " ", "R", "a", "y", "a", " ", "O", "f", "f", "e", "r">>

\* C15: extract_metadata answers every text, the empty one included, with a
\* record of exactly source, title, date and description, each a string;
\* the date is empty when no 'Modified on' phrase matches and the
\* description is empty when no numbered item matches.
C15_MetadataTotal ==
    meta_result # << >> =>
        LET t == meta_document.page_content
        IN  /\ DOMAIN meta_result = {"source", "title", "date", "description"}
            /\ \A f \in DOMAIN meta_result : meta_result[f] \in Seq(STRING)
            /\ meta_result.source = meta_document.metadata.source
            /\ DateStarts(t) = {} => meta_result.date = << >>
            /\ (\A p \in 0..Len(t) : DescriptionGroup(t, p) = << >>)
                   => meta_result.description = << >>

\* C15 witness: the metadata of the empty text
C15_Witness ==
    /\ meta_result # << >>
    /\ meta_document.page_content = << >>
    /\ meta_result.date = << >>
    /\ meta_result.description = << >>
    /\ meta_result.title = meta_document.metadata.source

---------------------------------------------------------------------------
(* The chunk dump and the order of the chunks: the claims                  *)

\* text starts with the label
StartsWith(text, label) == Len(text) >= Len(label) /\ SubSeq(text, 1, Len(label)) = label

\* the line is label followed by the decimal digits of n
LabelledNumber(line, label, n) ==
    /\ StartsWith(line, label)
    /\ Len(line) > Len(label)
    /\ \A j \in (Len(label) + 1)..Len(line) : line[j] \in Digits
    /\ line[Len(label) + 1] # "0" \/ Len(line) = Len(label) + 1
    /\ ParseInt(SubSeq(line, Len(label) + 1, Len(line))) = n

\* the lines of the dump at which a block starts: a CHUNK line after an
\* empty line and before a Source: line
BlockHeads(lines) ==
    {h \in 2..(Len(lines) - 1) :
        /\ lines[h - 1] = << >>
        /\ \E n \in 1..Len(lines) : LabelledNumber(lines[h], <<"C", "H", "U", "N", "K", " ">>, n)
        /\ StartsWith(lines[h + 1], <<"S", "o", "u", "r", "c", "e", ":", " ">>)}

\* the i-th element of a set of numbers, in ascending order
Nth(xs, i) == CHOOSE x \in xs : Cardinality({y \in xs : y <= x}) = i

\* the i-th block of the dump
Block(lines, i) ==
    SubSeq(lines, Nth(BlockHeads(lines), i),
           IF i < Cardinality(BlockHeads(lines))
           THEN Nth(BlockHeads(lines), i + 1) - 1
           ELSE Len(lines))

\* the Question: lines among the lines of a block above its first rule
QuestionLinesOf(block) ==
    {j \in 1..(Len(block) - 4) : StartsWith(block[j], <<"Q", "u", "e", "s", "t", "i", "o", "n", ":">>)}

\* C14: the dump of N chunks starts with the line 'Total chunks: N' and
\* holds exactly N blocks; the i-th is headed 'CHUNK i', names the source
\* of the i-th chunk, ends with that chunk's content between two rules of
\* 80 dashes, and has a Question: line, with the chunk's question, exactly
\* when the chunk's metadata has a question.
C14_DumpListsChunksInOrder ==
    pcProcess = "done" =>
        LET lines == document_chunks_txt
            N == Len(all_chunks)
        IN  /\ LabelledNumber(lines[1], <<"T", "o", "t", "a", "l", " ", "c", "h", "u", "n", "k", "s", ":", " ">>, N)
            /\ Cardinality(BlockHeads(lines)) = N
            /\ \A i \in 1..N :
                   LET block == Block(lines, i)
                       chunk == all_chunks[i]
                   IN  /\ LabelledNumber(block[1], <<"C", "H", "U", "N", "K", " ">>, i)
                       /\ block[2] = <<"S", "o", "u", "r", "c", "e", ":", " ">> \o chunk.metadata.source
                       /\ StartsWith(block[3], <<"T", "i", "t", "l", "e", ":", " ">>)
                       /\ block[Len(block) - 3] = [j \in 1..80 |-> "-"]
                       /\ block[Len(block) - 2] = chunk.page_content
                       /\ block[Len(block) - 1] = [j \in 1..80 |-> "-"]
                       /\ block[Len(block)] = << >>
                       /\ QuestionLinesOf(block) # {} <=> HasQuestion(chunk)
                       /\ HasQuestion(chunk) =>
                              \E j \in QuestionLinesOf(block) :
                                  block[j] = <<"Q", "u", "e", "s", "t", "i", "o", "n", ":", " ">> \o chunk.metadata.question

\* C14 witness: the dump of three chunks of two documents, the first two
\* with a question, the third without
C14_Witness ==
    /\ pcProcess = "done"
    /\ Len(all_chunks) = 3
    /\ HasQuestion(all_chunks[1])
    /\ all_chunks[2].metadata.question # << >>
    /\ ~HasQuestion(all_chunks[3])
    /\ Cardinality(BlockHeads(document_chunks_txt)) = 3

\* entry a of the boundary list comes before entry b in the list sorted by
\* question number: a smaller number, or the same number earlier in the text
SortsBefore(ps, a, b) ==
    ps[a].q_num < ps[b].q_num \/ (ps[a].q_num = ps[b].q_num /\ a < b)

\* the boundary (in text order) that is entry i of the sorted list
SortedEntry(ps, i) ==
    CHOOSE a \in 1..Len(ps) :
        Cardinality({b \in 1..Len(ps) : SortsBefore(ps, b, a)}) = i - 1

\* the end of the raw span of entry i of the sorted list
SortedSpanEnd(t, ps, i) ==
    IF i < Len(ps) THEN ps[SortedEntry(ps, i + 1)].pos ELSE Len(t)

\* the entries of the sorted list whose span has content after cleaning
KeptEntries(t, ps) ==
    {i \in 1..Len(ps) :
        clean_text(Strip(Slice(t, ps[SortedEntry(ps, i)].pos, SortedSpanEnd(t, ps, i)))) # << >>}

\* C16: in question-anchored mode the boundaries are taken in the order of
\* their question numbers (equal numbers in text order), not of their
\* positions: the chunk of entry i of that order has the raw span from its
\* own position to the position of entry i + 1, or to the end of the text
\* for the last entry, and carries entry i's number and its question
\* without the label; entries whose span cleans to nothing have no chunk.
C16_SlicesFollowNumberOrder ==
    pcProcess = "done" =>
        \A d \in 1..Len(documents) :
            LET t == documents[d].page_content
                ps == PositionsOf(t, Matches(t))
                cs == ChunksOfDoc(d)
            IN  ps # << >> =>
                    /\ Len(cs) = Cardinality(KeptEntries(t, ps))
                    /\ \A n \in 1..Len(cs) :
                           LET i == Nth(KeptEntries(t, ps), n)
                               entry == ps[SortedEntry(ps, i)]
                           IN  /\ cs[n].pos = entry.pos
                               /\ cs[n].end_pos = SortedSpanEnd(t, ps, i)
                               /\ cs[n].page_content =
                                      clean_text(Strip(Slice(t, cs[n].pos, cs[n].end_pos)))
                               /\ cs[n].metadata.question_number = entry.q_num
                               /\ cs[n].metadata.question = QuestionText(entry.question)

\* C16 witness: a document whose question numbers are not in text order,
\* with a chunk whose raw span runs over a boundary that follows it in the
\* text
C16_Witness ==
    /\ pcProcess = "done"
    /\ \E d \in 1..Len(documents) :
           LET t == documents[d].page_content
               ms == Matches(t)
           IN  /\ ms # << >>
               /\ ~NonDecreasing(MarkerNumbers(t, ms))
               /\ \E n \in 1..Len(ChunksOfDoc(d)) : \E i \in 1..Len(ms) :
                      /\ ChunksOfDoc(d)[n].pos < ms[i].start
                      /\ ms[i].start < ChunksOfDoc(d)[n].end_pos

\* C18: chunk_documents keeps the order of the documents, every chunk has
\* the source, title, date and description extracted from its own
\* document, and the chunks of a question-anchored document come with
\* non-decreasing question numbers.
C18_DocumentOrderAndNumberOrder ==
    pcProcess = "done" =>
        /\ \A i \in 1..Len(all_chunks) : \A j \in i..Len(all_chunks) :
               all_chunks[i].doc <= all_chunks[j].doc
        /\ \A i \in 1..Len(all_chunks) :
               LET own == documents[all_chunks[i].doc]
               IN  /\ all_chunks[i].metadata.source = own.metadata.source
                   /\ \A f \in {"source", "title", "date", "description"} :
                          all_chunks[i].metadata[f] = extract_metadata(own)[f]
        /\ \A d \in 1..Len(documents) :
               \A n \in 1..(Len(ChunksOfDoc(d)) - 1) :
                   HasQuestionNumber(ChunksOfDoc(d)[n]) =>
                       ChunksOfDoc(d)[n].metadata.question_number
                           <= ChunksOfDoc(d)[n + 1].metadata.question_number

\* C18 witness: two documents with chunks, the first with question numbers
\* out of text order and two chunks
C18_Witness ==
    /\ pcProcess = "done"
    /\ Len(documents) = 2
    /\ ~NonDecreasing(MarkerNumbers(documents[1].page_content,
                                    Matches(documents[1].page_content)))
    /\ Len(ChunksOfDoc(1)) >= 2
    /\ ChunksOfDoc(2) # << >>
    /\ all_chunks[Len(all_chunks)].metadata.source = documents[2].metadata.source
    /\ all_chunks[Len(all_chunks)].metadata.description
           # all_chunks[1].metadata.description

---------------------------------------------------------------------------
(* The chat front end: the claim                                           *)

\* C20: between script runs the chat history of a session that has one
\* starts with the assistant's greeting and alternates assistant, user,
\* assistant, ...: every submitted prompt has added one user message and,
\* after it, one assistant message, also when retrieval or generation
\* raised in that run.  A session is without a history as long as no run
\* has reached lines 92-95: before the first run, when the system failed
\* to load, and when the runs so far were stopped at or before line 85;
\* no prompt can be submitted in such a session.
C20_HistoryAlternates ==
    (pcChat = "idle" /\ messages # << >>) =>
        /\ messages[1] = [role |-> "assistant", content |-> Greeting]
        /\ \A i \in 1..Len(messages) :
               messages[i].role = IF i % 2 = 1 THEN "assistant" ELSE "user"
        /\ Len(messages) % 2 = 1

====
